---- MODULE Spec2Model ----
(***************************************************************************)
(* Model of the moving-average-crossover trading system:                   *)
(*   - BacktestEngine (src/backtest.py): the ledger (balance, position,    *)
(*     trade log, equity curve, results) and the replay loop;              *)
(*   - GoldenCrossStrategy (src/trading_strategy.py): position fields and  *)
(*     the stop-loss / take-profit computation;                            *)
(*   - TradingEngine (src/trading_engine.py): the live tick handlers.      *)
(* Python floats are modelled as exact rationals [n, d] in lowest terms.   *)
(***************************************************************************)
EXTENDS Integers, Sequences, FiniteSets, TLC

VARIABLES
    mode,       \* which entry point drives the objects: "backtest" (run_backtest),
                \* "ledger" (a caller invoking the BacktestEngine methods directly),
                \* "live" (TradingEngine tick handlers), "system" (TradingSystem:
                \* the trading thread and the monitor thread), "stats" and
                \* "signals" (a method applied to its inputs), "decision" (one
                \* candle given to the live tick and to the backtest step),
                \* "candle" (ticks that see the same candle), "snapshot" (the
                \* monitor reading while a tick is under way)
    engine,     \* the BacktestEngine instance (its fields)
    strategy,   \* the GoldenCrossStrategy instance (its state fields)
    trade_stats,\* TradingEngine.trade_stats
    is_running, \* TradingEngine.is_running
    monitor,    \* the TradingMonitor instance and the position of its thread
    df,         \* the fetched data frame: its length and its rows from index long_period on
    pc,         \* position of the running entry point
    i,          \* loop index of execute_backtest
    ret,        \* value returned by the last run_backtest
    runs,       \* outputs of the completed run_backtest calls, oldest first
    ncalls,     \* number of direct calls / live ticks made so far
    last        \* the last handler that ran: what was called, with what, what happened

vars == <<mode, engine, strategy, trade_stats, is_running, monitor, df, pc, i, ret, runs,
          ncalls, last>>

----------------------------------------------------------------------------
(* Bounds of the model *)
MaxCandles == 3     \* candles processed beyond long_period
MaxRuns == 2        \* run_backtest calls over the same data
MaxCalls == 3       \* direct method calls in "ledger" mode
MaxTicks == 3       \* scheduler ticks in "live" mode
MaxRounds == 2      \* iterations of the monitoring loop
MaxJobs == 2        \* scheduler jobs run while the monitor thread is observed
MaxScript == 4      \* direct calls that build the ledger a statistic is computed from
MaxPoints == 4      \* length of an equity series a statistic is computed from

(* Program constants *)
LONG_MA_PERIOD == 30
INITIAL_BALANCE == 10000
STOP_LOSS_PERCENT == 2
TAKE_PROFIT_PERCENT == 5
SHORT_MA_PERIOD == 10
RSI_WINDOW == 14        \* ta.momentum.rsi(window=14)
BB_WINDOW == 20         \* ta.volatility.BollingerBands(window=20)
VOLUME_WINDOW == 20     \* ta.volume.volume_sma(window=20)
MACD_SLOW == 26         \* ta.trend.MACD(close): the slow window it is called with
MACD_SIGN == 9          \* ta.trend.MACD(close): the signal window it is called with

----------------------------------------------------------------------------
(* Exact rational arithmetic standing for Python float arithmetic *)

RECURSIVE GCD(_, _)
GCD(a, b) == IF b = 0 THEN a ELSE GCD(b, a % b)

Abs(x) == IF x < 0 THEN -x ELSE x

Norm(n, d) ==
    LET s == IF d < 0 THEN -1 ELSE 1
        g == GCD(Abs(n), Abs(d))
    IN  [n |-> (s * n) \div g, d |-> (s * d) \div g]

R(k) == [n |-> k, d |-> 1]

Frac(n, d) == Norm(n, d)

LCM(a, b) == (a \div GCD(a, b)) * b

RAdd(a, b) ==
    LET l == LCM(a.d, b.d)
    IN  Norm(a.n * (l \div a.d) + b.n * (l \div b.d), l)

RNeg(a) == [n |-> -a.n, d |-> a.d]

RSub(a, b) == RAdd(a, RNeg(b))

RMul(a, b) ==
    LET g1 == GCD(Abs(a.n), b.d)
        g2 == GCD(Abs(b.n), a.d)
    IN  IF a.n = 0 \/ b.n = 0 THEN R(0)
        ELSE [n |-> (a.n \div g1) * (b.n \div g2), d |-> (a.d \div g2) * (b.d \div g1)]

RInv(a) == IF a.n < 0 THEN [n |-> -a.d, d |-> -a.n] ELSE [n |-> a.d, d |-> a.n]

RDiv(a, b) == RMul(a, RInv(b))

RLe(a, b) ==
    LET l == LCM(a.d, b.d)
    IN  a.n * (l \div a.d) <= b.n * (l \div b.d)

RLt(a, b) == RLe(a, b) /\ a # b

RGe(a, b) == RLe(b, a)

RGt(a, b) == RLt(b, a)

RECURSIVE RSum(_)
RSum(s) == IF s = <<>> THEN R(0) ELSE RAdd(Head(s), RSum(Tail(s)))

----------------------------------------------------------------------------
(* Values *)

NoneVal == [none |-> TRUE]      \* Python None where a number or a record is expected
FLAT == "none"                  \* Python None in a position field
LONG == "long"

\* What a caller can pass as a price: a float (Python or numpy); "str", a value
\* that is no number (the first arithmetic on it raises TypeError); "array", a
\* value arithmetic accepts but the format spec ':.2f' of the logger.debug line
\* rejects with TypeError (a one-element numpy array, a fractions.Fraction
\* before Python 3.12).
PriceKinds == {"float", "str", "array"}

\* Closing prices: from an entry at 100, 97 is below the stop-loss (98) and 110
\* above the take-profit (105); from an entry at 97, 100 triggers neither.
Prices == {R(97), R(100), R(110)}

\* The signal columns generate_signals can produce together on one row:
\* buy_signal excludes sell_signal (golden_cross and dead_cross exclude each
\* other) and excludes force_sell (RSI <= 70 and close <= BB_upper).
SignalRows ==
    {r \in [buy_signal : BOOLEAN, sell_signal : BOOLEAN, force_sell : BOOLEAN] :
        ~(r.buy_signal /\ (r.sell_signal \/ r.force_sell))}

Rows ==
    {[close |-> p, buy_signal |-> r.buy_signal, sell_signal |-> r.sell_signal,
      force_sell |-> r.force_sell] : p \in Prices, r \in SignalRows}

\* len(df) of the fetched data: below long_period, equal to it, and above it.
Lengths == {0, LONG_MA_PERIOD - 1} \cup (LONG_MA_PERIOD .. LONG_MA_PERIOD + MaxCandles)

NoData == [fetched |-> FALSE, isnone |-> FALSE, len |-> 0, rows |-> <<>>]

\* df.iloc[idx] for idx >= long_period
Row(d, idx) == d.rows[idx - LONG_MA_PERIOD + 1]

----------------------------------------------------------------------------
(* BacktestEngine *)

ZeroResults ==
    [total_trades |-> 0, winning_trades |-> 0, losing_trades |-> 0,
     total_return |-> R(0), max_drawdown |-> R(0), sharpe_ratio |-> R(0),
     win_rate |-> R(0), profit_factor |-> R(0)]

NewBacktestEngine(initial_balance) ==
    [initial_balance |-> R(initial_balance),
     balance |-> R(initial_balance),
     position |-> FLAT,
     position_size |-> R(0),
     entry_price |-> R(0),
     trades |-> <<>>,
     equity_curve |-> <<>>,
     results |-> ZeroResults]

\* Faulty variant of ExecuteBuy: the whole balance is spent instead of 90% of it.
ExecuteBuyWholeBalance(e, price, kind, timestamp) ==
    IF kind = "str" THEN e
    ELSE
        LET trade_amount == e.balance
            size == RDiv(trade_amount, price)
            bal == RSub(e.balance, trade_amount)
            trade == [timestamp |-> timestamp, type |-> "buy", price |-> price,
                      size |-> size, amount |-> trade_amount, balance |-> bal]
        IN  [e EXCEPT !.position_size = size,
                      !.position = LONG,
                      !.entry_price = price,
                      !.balance = bal,
                      !.trades = Append(@, trade)]

\* Faulty variant of ExecuteBuy: 110% of the balance is spent (a margin buy).
ExecuteBuyOverspend(e, price, kind, timestamp) ==
    IF kind = "str" THEN e
    ELSE
        LET trade_amount == RMul(e.balance, Frac(11, 10))
            size == RDiv(trade_amount, price)
            bal == RSub(e.balance, trade_amount)
            trade == [timestamp |-> timestamp, type |-> "buy", price |-> price,
                      size |-> size, amount |-> trade_amount, balance |-> bal]
        IN  [e EXCEPT !.position_size = size,
                      !.position = LONG,
                      !.entry_price = price,
                      !.balance = bal,
                      !.trades = Append(@, trade)]

\* execute_buy: no guard on the position; every exception is caught and logged.
ExecuteBuy(e, price, kind, timestamp) ==
    IF kind = "str" THEN e      \* line 192 raises before any field is assigned
    ELSE
        LET trade_amount == RMul(e.balance, Frac(9, 10))
            size == RDiv(trade_amount, price)
            bal == RSub(e.balance, trade_amount)
            trade == [timestamp |-> timestamp, type |-> "buy", price |-> price,
                      size |-> size, amount |-> trade_amount, balance |-> bal]
        IN  [e EXCEPT !.position_size = size,
                      !.position = LONG,
                      !.entry_price = price,
                      !.balance = bal,
                      !.trades = Append(@, trade)]

\* whether execute_buy ends in its except branch (logger.error)
BuyLogsError(e, kind) == kind # "float"

\* Faulty variant of ExecuteSell: the winner test is profit >= 0 instead of profit > 0.
ExecuteSellZeroWins(e, price, kind, timestamp) ==
    IF e.position = FLAT THEN e
    ELSE IF kind = "str" THEN e
    ELSE
        LET trade_amount == RMul(e.position_size, price)
            bal == RAdd(e.balance, trade_amount)
            cost == RMul(e.position_size, e.entry_price)
            profit == IF e.position = LONG THEN RSub(trade_amount, cost)
                      ELSE RSub(cost, trade_amount)
            trade == [timestamp |-> timestamp, type |-> "sell", price |-> price,
                      size |-> e.position_size, amount |-> trade_amount,
                      profit |-> profit, balance |-> bal]
            res == [e.results EXCEPT
                      !.total_trades = @ + 1,
                      !.winning_trades = IF RGe(profit, R(0)) THEN @ + 1 ELSE @,
                      !.losing_trades = IF RGe(profit, R(0)) THEN @ ELSE @ + 1]
            recorded == [e EXCEPT !.balance = bal,
                                  !.trades = Append(@, trade),
                                  !.results = res]
        IN  IF kind = "array" THEN recorded
            ELSE [recorded EXCEPT !.position = FLAT,
                                  !.position_size = R(0),
                                  !.entry_price = R(0)]

\* Faulty variant of ExecuteSell: the profit recorded is the proceeds of the sale,
\* the cost of the position not being deducted.
ExecuteSellProfitIsProceeds(e, price, kind, timestamp) ==
    IF e.position = FLAT THEN e
    ELSE IF kind = "str" THEN e
    ELSE
        LET trade_amount == RMul(e.position_size, price)
            bal == RAdd(e.balance, trade_amount)
            profit == trade_amount
            trade == [timestamp |-> timestamp, type |-> "sell", price |-> price,
                      size |-> e.position_size, amount |-> trade_amount,
                      profit |-> profit, balance |-> bal]
            res == [e.results EXCEPT
                      !.total_trades = @ + 1,
                      !.winning_trades = IF RGt(profit, R(0)) THEN @ + 1 ELSE @,
                      !.losing_trades = IF RGt(profit, R(0)) THEN @ ELSE @ + 1]
            recorded == [e EXCEPT !.balance = bal,
                                  !.trades = Append(@, trade),
                                  !.results = res]
        IN  IF kind = "array" THEN recorded
            ELSE [recorded EXCEPT !.position = FLAT,
                                  !.position_size = R(0),
                                  !.entry_price = R(0)]

\* Faulty variant of ExecuteSell: the sale is applied without a SELL record.
ExecuteSellNoRecord(e, price, kind, timestamp) ==
    IF e.position = FLAT \/ kind # "float" THEN e
    ELSE [e EXCEPT !.balance = RAdd(@, RMul(e.position_size, price)),
                   !.results.total_trades = @ + 1,
                   !.position = FLAT,
                   !.position_size = R(0),
                   !.entry_price = R(0)]

\* Faulty variant of ExecuteSell: a sale that is not a win is left out of the
\* losing_trades counter.
ExecuteSellLossesUncounted(e, price, kind, timestamp) ==
    IF e.position = FLAT \/ kind = "str" THEN e
    ELSE
        LET trade_amount == RMul(e.position_size, price)
            profit == RSub(trade_amount, RMul(e.position_size, e.entry_price))
            trade == [timestamp |-> timestamp, type |-> "sell", price |-> price,
                      size |-> e.position_size, amount |-> trade_amount,
                      profit |-> profit, balance |-> RAdd(e.balance, trade_amount)]
            recorded == [e EXCEPT
                           !.balance = RAdd(@, trade_amount),
                           !.trades = Append(@, trade),
                           !.results.total_trades = @ + 1,
                           !.results.winning_trades = IF RGt(profit, R(0)) THEN @ + 1 ELSE @]
        IN  IF kind = "array" THEN recorded
            ELSE [recorded EXCEPT !.position = FLAT,
                                  !.position_size = R(0),
                                  !.entry_price = R(0)]

\* execute_sell: returns silently when no position is held; the position is reset
\* after the logger.debug line, whose format spec raises for an array price.
ExecuteSell(e, price, kind, timestamp) ==
    IF e.position = FLAT THEN e
    ELSE IF kind = "str" THEN e     \* line 220 raises before any field is assigned
    ELSE
        LET trade_amount == RMul(e.position_size, price)
            bal == RAdd(e.balance, trade_amount)
            cost == RMul(e.position_size, e.entry_price)
            profit == IF e.position = LONG THEN RSub(trade_amount, cost)
                      ELSE RSub(cost, trade_amount)
            trade == [timestamp |-> timestamp, type |-> "sell", price |-> price,
                      size |-> e.position_size, amount |-> trade_amount,
                      profit |-> profit, balance |-> bal]
            res == [e.results EXCEPT
                      !.total_trades = @ + 1,
                      !.winning_trades = IF RGt(profit, R(0)) THEN @ + 1 ELSE @,
                      !.losing_trades = IF RGt(profit, R(0)) THEN @ ELSE @ + 1]
            recorded == [e EXCEPT !.balance = bal,
                                  !.trades = Append(@, trade),
                                  !.results = res]
        IN  IF kind = "array" THEN recorded     \* line 248 raises: 251-253 never run
            ELSE [recorded EXCEPT !.position = FLAT,
                                  !.position_size = R(0),
                                  !.entry_price = R(0)]

SellLogsError(e, kind) == e.position # FLAT /\ kind # "float"

StopLoss(entry_price) ==
    RMul(entry_price, RSub(R(1), Frac(STOP_LOSS_PERCENT, 100)))

\* Faulty variant of TakeProfit: a take-profit percentage of 0.
TakeProfitZeroPercent(entry_price) == entry_price

TakeProfit(entry_price) ==
    RMul(entry_price, RAdd(R(1), Frac(TAKE_PROFIT_PERCENT, 100)))

\* Faulty variant of ExitTriggered: the take-profit comparison is missing.
ExitTriggeredStopLossOnly(e, current_price) ==
    /\ e.position = LONG
    /\ RLe(current_price, StopLoss(e.entry_price))

\* the condition under which check_exit_conditions sells and returns True
ExitTriggered(e, current_price) ==
    /\ e.position = LONG
    /\ \/ RLe(current_price, StopLoss(e.entry_price))
       \/ RGe(current_price, TakeProfit(e.entry_price))

\* Faulty variant of CheckExitConditions: the exit is sold at the threshold price
\* that was crossed instead of the current price.
CheckExitConditionsAtThreshold(e, current_price, timestamp) ==
    IF ExitTriggered(e, current_price)
    THEN ExecuteSell(e, IF RLe(current_price, StopLoss(e.entry_price))
                        THEN StopLoss(e.entry_price) ELSE TakeProfit(e.entry_price),
                     "float", timestamp)
    ELSE e

CheckExitConditions(e, current_price, timestamp) ==
    IF ExitTriggered(e, current_price)
    THEN ExecuteSell(e, current_price, "float", timestamp)
    ELSE e

\* Faulty variant of UpdateEquityCurve: the equity is the cash balance, whatever
\* the position.
UpdateEquityCurveCashOnly(e, current_price, timestamp) ==
    [e EXCEPT !.equity_curve =
        Append(@, [timestamp |-> timestamp, equity |-> e.balance, price |-> current_price])]

UpdateEquityCurve(e, current_price, timestamp) ==
    LET current_equity ==
            IF e.position # FLAT
            THEN IF e.position = LONG
                 THEN RAdd(e.balance, RMul(e.position_size, current_price))
                 ELSE RSub(e.balance, RMul(e.position_size, current_price))
            ELSE e.balance
    IN  [e EXCEPT !.equity_curve =
            Append(@, [timestamp |-> timestamp, equity |-> current_equity,
                       price |-> current_price])]

\* Faulty variant of DrawdownFrom: the peak stays the first equity value.
RECURSIVE DrawdownFromFirstValue(_, _, _, _)
DrawdownFromFirstValue(values, k, peak, max_dd) ==
    IF k > Len(values) THEN max_dd
    ELSE
        LET equity == values[k]
            drawdown == RMul(RDiv(RSub(peak, equity), peak), R(100))
        IN  DrawdownFromFirstValue(values, k + 1, peak,
                                   IF RGt(drawdown, max_dd) THEN drawdown ELSE max_dd)

\* calculate_max_drawdown: the loop over the equity values from position k
RECURSIVE DrawdownFrom(_, _, _, _)
DrawdownFrom(values, k, peak, max_dd) ==
    IF k > Len(values) THEN max_dd
    ELSE
        LET equity == values[k]
            peak2 == IF RGt(equity, peak) THEN equity ELSE peak
            drawdown == RMul(RDiv(RSub(peak2, equity), peak2), R(100))
        IN  DrawdownFrom(values, k + 1, peak2,
                         IF RGt(drawdown, max_dd) THEN drawdown ELSE max_dd)

CalculateMaxDrawdown(e, res) ==
    IF e.equity_curve = <<>> THEN res
    ELSE
        LET equity_values == [k \in 1 .. Len(e.equity_curve) |-> e.equity_curve[k].equity]
        IN  [res EXCEPT !.max_drawdown = DrawdownFrom(equity_values, 1, equity_values[1], R(0))]

\* the per-step returns of calculate_sharpe_ratio
Returns(equity_curve) ==
    [k \in 1 .. Len(equity_curve) - 1 |->
        RDiv(RSub(equity_curve[k + 1].equity, equity_curve[k].equity),
             equity_curve[k].equity)]

\* np.std(returns) > 0: the returns are not all the same value
StdPositive(returns) == \E a, b \in 1 .. Len(returns) : returns[a] # returns[b]

\* mean(returns) / std(returns) * sqrt(252) is irrational in general: the value is
\* kept as the returns it is computed from.
SharpeOf(returns) == [annualized_mean_over_std_of |-> returns]

CalculateSharpeRatio(e, res) ==
    IF Len(e.equity_curve) < 2 THEN res
    ELSE
        LET returns == Returns(e.equity_curve)
        IN  IF StdPositive(returns)
            THEN [res EXCEPT !.sharpe_ratio = SharpeOf(returns)]
            ELSE res

IsSell(t) == t.type = "sell"

\* Faulty variant of CalculateProfitFactor: without losses the factor is the sum
\* of the wins.
CalculateProfitFactorNoLossIsWins(e, res) ==
    LET sells == SelectSeq(e.trades, IsSell)
        winning_profits == SelectSeq([k \in 1 .. Len(sells) |-> sells[k].profit],
                                     LAMBDA x : RGt(x, R(0)))
        losing_profits == SelectSeq([k \in 1 .. Len(sells) |-> sells[k].profit],
                                    LAMBDA x : ~RGt(x, R(0)))
        total_wins == RSum(winning_profits)
        total_losses == RSum([k \in 1 .. Len(losing_profits) |->
                                 [n |-> Abs(losing_profits[k].n), d |-> losing_profits[k].d]])
    IN  IF RGt(total_losses, R(0))
        THEN [res EXCEPT !.profit_factor = RDiv(total_wins, total_losses)]
        ELSE [res EXCEPT !.profit_factor = total_wins]

CalculateProfitFactor(e, res) ==
    LET sells == SelectSeq(e.trades, IsSell)
        winning_profits == SelectSeq([k \in 1 .. Len(sells) |-> sells[k].profit],
                                     LAMBDA x : RGt(x, R(0)))
        losing_profits == SelectSeq([k \in 1 .. Len(sells) |-> sells[k].profit],
                                    LAMBDA x : ~RGt(x, R(0)))
        total_wins == RSum(winning_profits)
        total_losses == RSum([k \in 1 .. Len(losing_profits) |->
                                 [n |-> Abs(losing_profits[k].n), d |-> losing_profits[k].d]])
    IN  IF RGt(total_losses, R(0))
        THEN [res EXCEPT !.profit_factor = RDiv(total_wins, total_losses)]
        ELSE res

\* Faulty variant of CalculateResults: the return of the period is added to the
\* total_return already stored.
CalculateResultsAccumulates(e) ==
    IF e.trades = <<>> THEN e
    ELSE
        LET r1 == [e.results EXCEPT
                     !.total_return =
                        RAdd(@, RMul(RDiv(RSub(e.balance, e.initial_balance),
                                          e.initial_balance), R(100)))]
            r2 == IF r1.total_trades > 0
                  THEN [r1 EXCEPT !.win_rate =
                            RMul(Frac(r1.winning_trades, r1.total_trades), R(100))]
                  ELSE r1
        IN  [e EXCEPT !.results =
                CalculateProfitFactor(e, CalculateSharpeRatio(e, CalculateMaxDrawdown(e, r2)))]

\* calculate_results: returns at once when the trade log is empty
CalculateResults(e) ==
    IF e.trades = <<>> THEN e
    ELSE
        LET r1 == [e.results EXCEPT
                     !.total_return =
                        RMul(RDiv(RSub(e.balance, e.initial_balance), e.initial_balance), R(100))]
            r2 == IF r1.total_trades > 0
                  THEN [r1 EXCEPT !.win_rate =
                            RMul(Frac(r1.winning_trades, r1.total_trades), R(100))]
                  ELSE r1
        IN  [e EXCEPT !.results =
                CalculateProfitFactor(e, CalculateSharpeRatio(e, CalculateMaxDrawdown(e, r2)))]

----------------------------------------------------------------------------
(* GoldenCrossStrategy *)

NewStrategy ==
    [position |-> FLAT, entry_price |-> NoneVal,
     stop_loss_price |-> NoneVal, take_profit_price |-> NoneVal]

ShouldBuy(row, current_index) ==
    IF current_index < LONG_MA_PERIOD THEN FALSE ELSE row.buy_signal

ShouldSell(row, current_index) ==
    IF current_index < LONG_MA_PERIOD THEN FALSE
    ELSE row.sell_signal \/ row.force_sell

\* the signal_type should_sell puts in its log line when it returns True (line 178):
\* the sell-signal text if sell_signal is set, the forced-exit text otherwise
ShouldSellLabel(row) == IF row.sell_signal THEN "sell signal" ELSE "forced exit"

----------------------------------------------------------------------------
(* execute_backtest: one iteration of the loop *)

\* Faulty variant of IterationPath: the signals are acted on whatever the position.
IterationPathUnguarded(e, row, idx) ==
    IF e.position # FLAT /\ ExitTriggered(e, row.close) THEN "exit"
    ELSE IF ShouldBuy(row, idx) THEN "buy"
    ELSE IF ShouldSell(row, idx) THEN "sell"
    ELSE "none"

\* which branch the iteration takes
IterationPath(e, row, idx) ==
    IF e.position # FLAT /\ ExitTriggered(e, row.close) THEN "exit"
    ELSE IF ShouldBuy(row, idx) /\ e.position = FLAT THEN "buy"
    ELSE IF ShouldSell(row, idx) /\ e.position # FLAT THEN "sell"
    ELSE "none"

\* the strategy queries the iteration evaluates
IterationCalls(e, row, idx) ==
    LET path == IterationPath(e, row, idx)
    IN  IF path = "exit" THEN {}
        ELSE IF path = "buy" THEN {"should_buy"}
        ELSE {"should_buy", "should_sell"}

BacktestIteration(e, row, idx) ==
    LET path == IterationPath(e, row, idx)
    IN  IF path = "exit" THEN CheckExitConditions(e, row.close, idx)   \* continue
        ELSE IF path = "buy"
             THEN UpdateEquityCurve(ExecuteBuy(e, row.close, "float", idx), row.close, idx)
        ELSE IF path = "sell"
             THEN UpdateEquityCurve(ExecuteSell(e, row.close, "float", idx), row.close, idx)
        ELSE UpdateEquityCurve(e, row.close, idx)

\* Faulty variant of ClosePosition: the open position is left as it is.
ClosePositionSkipped(e, d) == e

\* after the loop: the position still open is sold at the last row's close
ClosePosition(e, d) ==
    IF e.position # FLAT
    THEN ExecuteSell(e, Row(d, d.len - 1).close, "float", d.len - 1)
    ELSE e

----------------------------------------------------------------------------
(* TradingEngine: the live handlers *)

NewTradeStats ==
    [total_trades |-> 0, winning_trades |-> 0, losing_trades |-> 0,
     total_profit |-> R(0), max_drawdown |-> R(0), current_drawdown |-> R(0)]

\* What the exchange gateway answers during one handler: the candle fetch
\* (None, fewer than long_period rows, exactly long_period rows, more), the last
\* row, the balance query, the free USDT against TRADE_AMOUNT, the free base
\* asset, the order-size computation, the ticker price and the order itself.
Gateways ==
    [data : {"none", "short", "exact", "ok"}, row : Rows,
     balance_ok : BOOLEAN, usdt_enough : BOOLEAN, asset_free : {R(0), R(1)},
     amount_ok : BOOLEAN, order_ok : BOOLEAN]

\* GoldenCrossStrategy.update_position
UpdatePosition(st, position_type, entry_price) ==
    [st EXCEPT !.position = position_type,
               !.entry_price = entry_price,
               !.stop_loss_price = IF position_type = LONG THEN StopLoss(entry_price)
                                   ELSE RMul(entry_price, RAdd(R(1), Frac(STOP_LOSS_PERCENT, 100))),
               !.take_profit_price = IF position_type = LONG THEN TakeProfit(entry_price)
                                     ELSE RMul(entry_price, RSub(R(1), Frac(TAKE_PROFIT_PERCENT, 100)))]

\* Faulty variant of ClearPosition: the stop-loss and take-profit prices are kept.
ClearPositionKeepsLevels(st) == [st EXCEPT !.position = FLAT, !.entry_price = NoneVal]

\* GoldenCrossStrategy.clear_position
ClearPosition(st) == NewStrategy

\* GoldenCrossStrategy.check_stop_loss_take_profit
CheckStopLossTakeProfit(st, current_price) ==
    IF st.position = LONG
    THEN IF RLe(current_price, st.stop_loss_price) THEN "stop_loss"
         ELSE IF RGe(current_price, st.take_profit_price) THEN "take_profit"
         ELSE "none"
    ELSE IF st.position = "short"
    THEN IF RGe(current_price, st.stop_loss_price) THEN "stop_loss"
         ELSE IF RLe(current_price, st.take_profit_price) THEN "take_profit"
         ELSE "none"
    ELSE "none"

\* the live state as one value: the strategy and the statistics
Live(st, ts) == [strategy |-> st, trade_stats |-> ts]

\* Faulty variant of ExecuteBuyTrade: the position is recorded once the order was
\* sent, whatever the exchange answered.
ExecuteBuyTradeUnconfirmed(lv, current_price, g) ==
    IF lv.strategy.position # FLAT THEN lv
    ELSE IF ~g.balance_ok THEN lv
    ELSE IF ~g.usdt_enough THEN lv
    ELSE IF ~g.amount_ok THEN lv
    ELSE Live(UpdatePosition(lv.strategy, LONG, current_price),
              [lv.trade_stats EXCEPT !.total_trades = @ + 1])

\* TradingEngine.execute_buy_trade
ExecuteBuyTrade(lv, current_price, g) ==
    IF lv.strategy.position # FLAT THEN lv
    ELSE IF ~g.balance_ok THEN lv
    ELSE IF ~g.usdt_enough THEN lv
    ELSE IF ~g.amount_ok THEN lv
    ELSE IF g.order_ok
         THEN Live(UpdatePosition(lv.strategy, LONG, current_price),
                   [lv.trade_stats EXCEPT !.total_trades = @ + 1])
         ELSE lv

\* Faulty variant of ExecuteSellTrade: a filled sell order on a sell signal reverses
\* the position into a short one at the current price.
ExecuteSellTradeReverses(lv, current_price, g) ==
    IF lv.strategy.position = FLAT THEN lv
    ELSE IF ~g.balance_ok THEN lv
    ELSE IF RLe(g.asset_free, R(0)) THEN lv
    ELSE IF g.order_ok
         THEN LET profit == RMul(RSub(current_price, lv.strategy.entry_price), g.asset_free)
              IN  Live(IF g.row.sell_signal
                       THEN UpdatePosition(lv.strategy, "short", current_price)
                       ELSE ClearPosition(lv.strategy),
                       [lv.trade_stats EXCEPT
                           !.total_profit = RAdd(@, profit),
                           !.winning_trades = IF RGt(profit, R(0)) THEN @ + 1 ELSE @,
                           !.losing_trades = IF RGt(profit, R(0)) THEN @ ELSE @ + 1])
         ELSE lv

\* TradingEngine.execute_sell_trade
ExecuteSellTrade(lv, current_price, g) ==
    IF lv.strategy.position = FLAT THEN lv
    ELSE IF ~g.balance_ok THEN lv
    ELSE IF RLe(g.asset_free, R(0)) THEN lv
    ELSE IF g.order_ok
         THEN LET profit ==
                      IF lv.strategy.position = LONG
                      THEN RMul(RSub(current_price, lv.strategy.entry_price), g.asset_free)
                      ELSE RMul(RSub(lv.strategy.entry_price, current_price), g.asset_free)
              IN  Live(ClearPosition(lv.strategy),
                       [lv.trade_stats EXCEPT
                           !.total_profit = RAdd(@, profit),
                           !.winning_trades = IF RGt(profit, R(0)) THEN @ + 1 ELSE @,
                           !.losing_trades = IF RGt(profit, R(0)) THEN @ ELSE @ + 1])
         ELSE lv

\* the index check_trading_signals passes to should_buy / should_sell: len(df) - 1
LiveIndex(g) == IF g.data = "exact" THEN LONG_MA_PERIOD - 1 ELSE LONG_MA_PERIOD

\* Faulty variant of CheckTradingSignals: when the candle fetch returns nothing the
\* handler goes on with the last row it has.
CheckTradingSignalsStaleData(lv, g) ==
    IF g.data = "short" THEN lv
    ELSE
        LET current_price == g.row.close
            sl_tp == CheckStopLossTakeProfit(lv.strategy, current_price)
        IN  IF lv.strategy.position # FLAT /\ sl_tp # "none"
            THEN ExecuteSellTrade(lv, current_price, g)
            ELSE IF g.row.buy_signal
                 THEN ExecuteBuyTrade(lv, current_price, g)
            ELSE IF g.row.sell_signal \/ g.row.force_sell
                 THEN ExecuteSellTrade(lv, current_price, g)
            ELSE lv

\* Faulty variant of CheckTradingSignals: the stop-loss / take-profit check before
\* the signals is missing.
CheckTradingSignalsNoExitCheck(lv, g) ==
    IF g.data \in {"none", "short"} THEN lv
    ELSE IF ShouldBuy(g.row, LiveIndex(g)) THEN ExecuteBuyTrade(lv, g.row.close, g)
    ELSE IF ShouldSell(g.row, LiveIndex(g)) THEN ExecuteSellTrade(lv, g.row.close, g)
    ELSE lv

\* TradingEngine.check_trading_signals
CheckTradingSignals(lv, g) ==
    IF g.data \in {"none", "short"} THEN lv
    ELSE
        LET current_price == g.row.close
            sl_tp == CheckStopLossTakeProfit(lv.strategy, current_price)
        IN  IF lv.strategy.position # FLAT /\ sl_tp # "none"
            THEN ExecuteSellTrade(lv, current_price, g)
            ELSE IF ShouldBuy(g.row, LiveIndex(g))
                 THEN ExecuteBuyTrade(lv, current_price, g)
            ELSE IF ShouldSell(g.row, LiveIndex(g))
                 THEN ExecuteSellTrade(lv, current_price, g)
            ELSE lv

\* which branch check_trading_signals takes
LivePath(lv, g) ==
    IF g.data \in {"none", "short"} THEN "nodata"
    ELSE IF lv.strategy.position # FLAT
            /\ CheckStopLossTakeProfit(lv.strategy, g.row.close) # "none" THEN "exit"
    ELSE IF ShouldBuy(g.row, LiveIndex(g)) THEN "buy"
    ELSE IF ShouldSell(g.row, LiveIndex(g)) THEN "sell"
    ELSE "none"

\* TradingEngine.check_position_status (the ticker price is g.row.close, absent
\* when the candle fetch of g is "none")
CheckPositionStatus(lv, g) ==
    IF lv.strategy.position = FLAT THEN lv
    ELSE IF g.data = "none" THEN lv
    ELSE IF CheckStopLossTakeProfit(lv.strategy, g.row.close) # "none"
         THEN ExecuteSellTrade(lv, g.row.close, g)
         ELSE lv

\* which branch check_position_status takes
PositionStatusPath(lv, g) ==
    IF lv.strategy.position = FLAT THEN "flat"
    ELSE IF g.data = "none" THEN "nodata"
    ELSE IF CheckStopLossTakeProfit(lv.strategy, g.row.close) # "none" THEN "exit"
    ELSE "none"

\* the gateway calls execute_sell_trade makes; a call that answered nothing (None
\* returned, the client having caught the exchange's error) is also listed as failed
SellTradeCalls(lv, g) ==
    IF lv.strategy.position = FLAT THEN {}
    ELSE IF ~g.balance_ok THEN {"get_account_balance", "get_account_balance failed"}
    ELSE IF RLe(g.asset_free, R(0)) THEN {"get_account_balance"}
    ELSE {"get_account_balance", "place_market_sell_order"}
         \cup (IF g.order_ok THEN {} ELSE {"place_market_sell_order failed"})

\* the gateway calls execute_buy_trade makes
BuyTradeCalls(lv, g) ==
    IF lv.strategy.position # FLAT THEN {}
    ELSE IF ~g.balance_ok THEN {"get_account_balance", "get_account_balance failed"}
    ELSE IF ~g.usdt_enough THEN {"get_account_balance"}
    ELSE IF ~g.amount_ok
         THEN {"get_account_balance", "calculate_order_amount", "calculate_order_amount failed"}
    ELSE {"get_account_balance", "calculate_order_amount", "place_market_buy_order"}
         \cup (IF g.order_ok THEN {} ELSE {"place_market_buy_order failed"})

\* the gateway calls check_trading_signals makes
LiveCalls(lv, g) ==
    {"get_historical_data"}
    \cup (IF g.data = "none" THEN {"get_historical_data failed"}
          ELSE IF LivePath(lv, g) \in {"exit", "sell"} THEN SellTradeCalls(lv, g)
          ELSE IF LivePath(lv, g) = "buy" THEN BuyTradeCalls(lv, g)
          ELSE {})

\* the gateway calls check_position_status makes
PositionStatusCalls(lv, g) ==
    IF lv.strategy.position = FLAT THEN {}
    ELSE {"get_current_price"}
         \cup (IF g.data = "none" THEN {"get_current_price failed"}
               ELSE IF PositionStatusPath(lv, g) = "exit" THEN SellTradeCalls(lv, g)
               ELSE {})

----------------------------------------------------------------------------
(* TradingMonitor (src/monitor.py), run by its own thread *)

\* TradingMonitor.__init__; alerts holds, for each alert of monitoring_data, its
\* type, the loop iteration that added it and its notified flag
NewMonitor ==
    [pc |-> "new", rounds |-> 0, system_status |-> "stopped",
     performance_metrics |-> NoneVal, alerts |-> {},
     api_errors |-> 0, consecutive_losses |-> 0]

\* what get_account_balance answers to the monitor: nothing, or a balance whose
\* free USDT is below the low_balance threshold or not
MonitorGateways == [balance_ok : BOOLEAN, usdt_low : BOOLEAN]

\* the engine and the monitor as one value
System(lv, running, mon) == [live |-> lv, is_running |-> running, monitor |-> mon]

\* TradingMonitor.add_alert: iterations are 300 s apart, so only an alert of the
\* same type added in this iteration counts as existing
AddAlert(mon, alert_type) ==
    IF \E a \in mon.alerts : a.type = alert_type /\ a.round = mon.rounds THEN mon
    ELSE [mon EXCEPT !.alerts = @ \cup {[type |-> alert_type, round |-> mon.rounds,
                                         notified |-> FALSE]}]

\* TradingEngine.get_trading_stats: a new dict built from trade_stats and the
\* strategy's fields
GetTradingStats(lv) ==
    [total_trades |-> lv.trade_stats.total_trades,
     winning_trades |-> lv.trade_stats.winning_trades,
     losing_trades |-> lv.trade_stats.losing_trades,
     total_profit |-> lv.trade_stats.total_profit,
     max_drawdown |-> lv.trade_stats.max_drawdown,
     current_drawdown |-> lv.trade_stats.current_drawdown,
     win_rate |-> IF lv.trade_stats.total_trades > 0
                  THEN RMul(Frac(lv.trade_stats.winning_trades, lv.trade_stats.total_trades),
                            R(100))
                  ELSE R(0),
     strategy_info |-> lv.strategy]

\* TradingMonitor.check_system_health
CheckSystemHealth(sys, mg) ==
    LET m1 == IF ~mg.balance_ok
              THEN AddAlert([sys.monitor EXCEPT !.api_errors = @ + 1], "api_error")
              ELSE [sys.monitor EXCEPT !.api_errors = 0]
        m2 == IF ~mg.balance_ok \/ mg.usdt_low THEN AddAlert(m1, "low_balance") ELSE m1
        m3 == IF ~sys.is_running THEN AddAlert(m2, "engine_stopped") ELSE m2
    IN  [sys EXCEPT !.monitor = m3]

\* Faulty variant of UpdatePerformanceMetrics: once the losses are looked at, the
\* engine's losing_trades counter is cleared.
UpdatePerformanceMetricsClearsLosses(sys) ==
    LET stats == GetTradingStats(sys.live)
        metrics == [total_trades |-> stats.total_trades,
                    winning_trades |-> stats.winning_trades,
                    losing_trades |-> stats.losing_trades,
                    win_rate |-> stats.win_rate,
                    total_profit |-> stats.total_profit,
                    current_drawdown |-> stats.current_drawdown,
                    max_drawdown |-> stats.max_drawdown]
    IN  [sys EXCEPT !.monitor.performance_metrics = metrics,
                    !.monitor.consecutive_losses = 0,
                    !.live.trade_stats.losing_trades = 0]

\* TradingMonitor.update_performance_metrics (get_recent_trades returns an empty
\* list, so the count of consecutive losses it stores is 0)
UpdatePerformanceMetrics(sys) ==
    LET stats == GetTradingStats(sys.live)
        metrics == [total_trades |-> stats.total_trades,
                    winning_trades |-> stats.winning_trades,
                    losing_trades |-> stats.losing_trades,
                    win_rate |-> stats.win_rate,
                    total_profit |-> stats.total_profit,
                    current_drawdown |-> stats.current_drawdown,
                    max_drawdown |-> stats.max_drawdown]
        m1 == [sys.monitor EXCEPT !.performance_metrics = metrics]
        m2 == IF stats.losing_trades > 0 THEN [m1 EXCEPT !.consecutive_losses = 0] ELSE m1
        m3 == IF RGt(stats.max_drawdown, R(10)) THEN AddAlert(m2, "max_drawdown") ELSE m2
    IN  [sys EXCEPT !.monitor = m3]

\* TradingMonitor.check_alerts: every alert is logged once (no alert is an hour old
\* within MaxRounds iterations)
CheckAlerts(sys) ==
    [sys EXCEPT !.monitor.alerts = {[a EXCEPT !.notified = TRUE] : a \in @}]

----------------------------------------------------------------------------
(* The state machine *)

\* the record kept of the last handler that ran
Last(op, price, kind, before, path, calls, logged) ==
    [op |-> op, price |-> price, kind |-> kind, before |-> before, path |-> path,
     calls |-> calls, logged |-> logged,
     raised |-> FALSE]     \* every handler wraps its body in try / except Exception

\* what a completed run_backtest leaves for its caller
Output(e, returned) == [trades |-> e.trades, results |-> e.results, returned |-> returned]

\* get_historical_data: seeded the same way on every call, it returns the same
\* frame for the same arguments. A length of -1 stands for the None it returns
\* when it fails.
FetchLengths(d) ==
    IF d.fetched THEN {IF d.isnone THEN -1 ELSE d.len} ELSE Lengths \cup {-1}

FetchRows(d, n) ==
    IF d.fetched THEN {d.rows}
    ELSE [1 .. (IF n > LONG_MA_PERIOD THEN n - LONG_MA_PERIOD ELSE 0) -> Rows]

Fetched(n, rows) ==
    [fetched |-> TRUE, isnone |-> n < 0, len |-> IF n < 0 THEN 0 ELSE n, rows |-> rows]

\* Faulty variant of InsufficientData: only a missing frame (None) is refused.
InsufficientDataNoneOnly(n) == n < 0

\* run_backtest line 68: df is None or len(df) < strategy.long_period
InsufficientData(n) == n < LONG_MA_PERIOD

Init ==
    /\ mode \in {"backtest", "ledger", "live"}
    /\ engine = NewBacktestEngine(INITIAL_BALANCE)
    /\ strategy = NewStrategy
    /\ trade_stats = NewTradeStats
    /\ is_running = FALSE
    /\ monitor = NewMonitor
    /\ df = NoData
    /\ pc = "idle"
    /\ i = 0
    /\ ret = NoneVal
    /\ runs = <<>>
    /\ ncalls = 0
    /\ last = Last("init", R(0), "float", NoneVal, "none", {}, FALSE)

\* run_backtest up to the loop: strategy creation, data fetch, length check
RunBacktest ==
    /\ mode = "backtest" /\ pc = "idle"
    /\ \E n \in FetchLengths(df) : \E rows \in FetchRows(df, n) :
        /\ df' = Fetched(n, rows)
        /\ strategy' = NewStrategy
        /\ IF InsufficientData(n)
           THEN /\ pc' = "done"
                /\ ret' = NoneVal
                /\ runs' = Append(runs, Output(engine, NoneVal))
                /\ i' = i
           ELSE /\ pc' = "loop"
                /\ i' = LONG_MA_PERIOD
                /\ UNCHANGED <<ret, runs>>
    /\ last' = Last("run_backtest", R(0), "float", engine, "none", {}, FALSE)
    /\ UNCHANGED <<mode, is_running, monitor, engine, trade_stats, ncalls>>

\* Faulty variant of LoopStep: the strategy object follows the ledger (should_buy
\* records the entry it signalled, should_sell clears it).
LoopStepStrategyFollows ==
    /\ mode = "backtest" /\ pc = "loop" /\ i < df.len
    /\ engine' = BacktestIteration(engine, Row(df, i), i)
    /\ strategy' = IF IterationPath(engine, Row(df, i), i) = "buy"
                   THEN UpdatePosition(strategy, LONG, Row(df, i).close)
                   ELSE IF IterationPath(engine, Row(df, i), i) = "sell"
                   THEN ClearPosition(strategy)
                   ELSE strategy
    /\ last' = Last("iteration", Row(df, i).close, "float", engine,
                    IterationPath(engine, Row(df, i), i),
                    IterationCalls(engine, Row(df, i), i), FALSE)
    /\ i' = i + 1
    /\ UNCHANGED <<mode, is_running, monitor, trade_stats, df, pc, ret, runs, ncalls>>

\* one iteration of the for loop of execute_backtest
LoopStep ==
    /\ mode = "backtest" /\ pc = "loop" /\ i < df.len
    /\ engine' = BacktestIteration(engine, Row(df, i), i)
    /\ last' = Last("iteration", Row(df, i).close, "float", engine,
                    IterationPath(engine, Row(df, i), i),
                    IterationCalls(engine, Row(df, i), i), FALSE)
    /\ i' = i + 1
    /\ UNCHANGED <<mode, is_running, monitor, strategy, trade_stats, df, pc, ret, runs, ncalls>>

\* the end of execute_backtest: the open position is closed
EndBacktest ==
    /\ mode = "backtest" /\ pc = "loop" /\ i >= df.len
    /\ engine' = ClosePosition(engine, df)
    /\ last' = Last("close_position",
                    IF engine.position # FLAT THEN Row(df, df.len - 1).close ELSE R(0),
                    "float", engine, "none", {}, FALSE)
    /\ pc' = "calc"
    /\ UNCHANGED <<mode, is_running, monitor, strategy, trade_stats, df, i, ret, runs, ncalls>>

\* the rest of run_backtest: calculate_results, print_results, return self.results
FinishBacktest ==
    /\ mode = "backtest" /\ pc = "calc"
    /\ engine' = CalculateResults(engine)
    /\ ret' = engine'.results
    /\ runs' = Append(runs, Output(engine', engine'.results))
    /\ last' = Last("calculate_results", R(0), "float", engine, "none", {}, FALSE)
    /\ pc' = "done"
    /\ UNCHANGED <<mode, is_running, monitor, strategy, trade_stats, df, i, ncalls>>

\* Faulty variant of NewEngine: the results mapping is shared between the instances.
NewEngineSharedResults ==
    /\ mode = "backtest" /\ pc = "done" /\ Len(runs) < MaxRuns
    /\ engine' = [NewBacktestEngine(INITIAL_BALANCE) EXCEPT !.results = engine.results]
    /\ pc' = "idle"
    /\ ret' = NoneVal
    /\ last' = Last("new_engine", R(0), "float", engine, "none", {}, FALSE)
    /\ UNCHANGED <<mode, is_running, monitor, strategy, trade_stats, df, i, runs, ncalls>>

\* main() run again: a new BacktestEngine over the same arguments
NewEngine ==
    /\ mode = "backtest" /\ pc = "done" /\ Len(runs) < MaxRuns
    /\ engine' = NewBacktestEngine(INITIAL_BALANCE)
    /\ pc' = "idle"
    /\ ret' = NoneVal
    /\ last' = Last("new_engine", R(0), "float", engine, "none", {}, FALSE)
    /\ UNCHANGED <<mode, is_running, monitor, strategy, trade_stats, df, i, runs, ncalls>>

\* run_backtest called again on the same BacktestEngine instance: nothing in
\* run_backtest assigns balance, position, trades, equity_curve or results before
\* the loop
RunBacktestAgain ==
    /\ mode = "backtest" /\ pc = "done" /\ Len(runs) < MaxRuns
    /\ pc' = "idle"
    /\ ret' = NoneVal
    /\ last' = Last("run_again", R(0), "float", engine, "none", {}, FALSE)
    /\ UNCHANGED <<mode, is_running, monitor, engine, strategy, trade_stats, df, i, runs, ncalls>>

\* a caller invoking execute_buy directly
CallExecuteBuy ==
    /\ mode = "ledger" /\ ncalls < MaxCalls
    /\ \E price \in Prices, kind \in PriceKinds :
        /\ engine' = ExecuteBuy(engine, price, kind, ncalls)
        /\ last' = Last("execute_buy", price, kind, engine, "none", {},
                        BuyLogsError(engine, kind))
    /\ ncalls' = ncalls + 1
    /\ UNCHANGED <<mode, is_running, monitor, strategy, trade_stats, df, pc, i, ret, runs>>

\* a caller invoking execute_sell directly
CallExecuteSell ==
    /\ mode = "ledger" /\ ncalls < MaxCalls
    /\ \E price \in Prices, kind \in PriceKinds :
        /\ engine' = ExecuteSell(engine, price, kind, ncalls)
        /\ last' = Last("execute_sell", price, kind, engine, "none", {},
                        SellLogsError(engine, kind))
    /\ ncalls' = ncalls + 1
    /\ UNCHANGED <<mode, is_running, monitor, strategy, trade_stats, df, pc, i, ret, runs>>

\* a caller invoking update_equity_curve directly
CallUpdateEquityCurve ==
    /\ mode = "ledger" /\ ncalls < MaxCalls
    /\ \E price \in Prices :
        /\ engine' = UpdateEquityCurve(engine, price, ncalls)
        /\ last' = Last("update_equity_curve", price, "float", engine, "none", {}, FALSE)
    /\ ncalls' = ncalls + 1
    /\ UNCHANGED <<mode, is_running, monitor, strategy, trade_stats, df, pc, i, ret, runs>>

\* the scheduler's one-minute job: check_trading_signals
LiveTick ==
    /\ mode = "live" /\ ncalls < MaxTicks
    /\ \E g \in Gateways :
        LET lv == CheckTradingSignals(Live(strategy, trade_stats), g)
        IN  /\ strategy' = lv.strategy
            /\ trade_stats' = lv.trade_stats
            /\ last' = Last("check_trading_signals", g.row.close, "float",
                            Live(strategy, trade_stats),
                            LivePath(Live(strategy, trade_stats), g),
                            LiveCalls(Live(strategy, trade_stats), g), FALSE)
    /\ ncalls' = ncalls + 1
    /\ UNCHANGED <<mode, is_running, monitor, engine, df, pc, i, ret, runs>>

\* the scheduler's hourly job: check_position_status
LivePositionStatus ==
    /\ mode = "live" /\ ncalls < MaxTicks
    /\ \E g \in Gateways :
        LET lv == CheckPositionStatus(Live(strategy, trade_stats), g)
        IN  /\ strategy' = lv.strategy
            /\ trade_stats' = lv.trade_stats
            /\ last' = Last("check_position_status", g.row.close, "float",
                            Live(strategy, trade_stats),
                            PositionStatusPath(Live(strategy, trade_stats), g),
                            PositionStatusCalls(Live(strategy, trade_stats), g), FALSE)
    /\ ncalls' = ncalls + 1
    /\ UNCHANGED <<mode, is_running, monitor, engine, df, pc, i, ret, runs>>

Next ==
    \/ RunBacktest
    \/ LoopStep
    \/ EndBacktest
    \/ FinishBacktest
    \/ NewEngine
    \/ CallExecuteBuy
    \/ CallExecuteSell
    \/ CallUpdateEquityCurve
    \/ LiveTick
    \/ LivePositionStatus

Spec == Init /\ [][Next]_vars

\* the same engine instance used for more than one run
InitRerun == Init /\ mode = "backtest"

NextRerun ==
    \/ RunBacktest
    \/ LoopStep
    \/ EndBacktest
    \/ FinishBacktest
    \/ RunBacktestAgain

SpecRerun == InitRerun /\ [][NextRerun]_vars

----------------------------------------------------------------------------
(* TradingSystem.start_system: the monitor thread is started, then the trading
   engine; the scheduler jobs run on the trading thread while the monitor thread
   runs its loop *)

\* the gateway answers of the jobs run next to the monitor: candles or none, no
\* signal or one, the order accepted or refused
SystemGateways ==
    {g \in Gateways :
        /\ g.data \in {"none", "ok"}
        /\ g.balance_ok /\ g.usdt_enough /\ g.amount_ok /\ g.asset_free = R(1)
        /\ ~g.row.force_sell
        /\ g.data = "none" => (g.order_ok /\ g.row.close = R(100)
                                /\ ~g.row.buy_signal /\ ~g.row.sell_signal)}

InitSystem ==
    /\ mode = "system"
    /\ engine = NewBacktestEngine(INITIAL_BALANCE)
    /\ strategy = NewStrategy
    /\ trade_stats = NewTradeStats
    /\ is_running = FALSE
    /\ monitor = NewMonitor
    /\ df = NoData
    /\ pc = "idle"
    /\ i = 0
    /\ ret = NoneVal
    /\ runs = <<>>
    /\ ncalls = 0
    /\ last = Last("init", R(0), "float", NoneVal, "none", {}, FALSE)

\* TradingEngine.start_trading: is_running is set, the scheduler jobs are
\* registered and the trading loop is entered
StartTrading ==
    /\ mode = "system" /\ pc = "idle"
    /\ is_running' = TRUE
    /\ pc' = "trading"
    /\ last' = Last("start_trading", R(0), "float", Live(strategy, trade_stats), "none", {},
                    FALSE)
    /\ UNCHANGED <<mode, engine, strategy, trade_stats, monitor, df, i, ret, runs, ncalls>>

\* TradingEngine.start_trading returning False: is_running has been set when
\* validate_config raises or test_connection fails; setup_scheduler and the
\* trading loop are not reached
StartTradingFails ==
    /\ mode = "system" /\ pc = "idle"
    /\ is_running' = TRUE
    /\ pc' = "failed"
    /\ \E failed \in {"validate_config", "test_connection"} :
        last' = Last("start_trading", R(0), "float", Live(strategy, trade_stats), failed, {},
                     TRUE)
    /\ UNCHANGED <<mode, engine, strategy, trade_stats, monitor, df, i, ret, runs, ncalls>>

\* TradingEngine.stop_trading (from stop_system, which start_system also calls
\* when start_trading returned False): the trading loop ends
StopTrading ==
    /\ mode = "system" /\ pc \in {"trading", "failed"}
    /\ is_running' = FALSE
    /\ pc' = "stopped"
    /\ last' = Last("stop_trading", R(0), "float", Live(strategy, trade_stats), "none", {},
                    FALSE)
    /\ UNCHANGED <<mode, engine, strategy, trade_stats, monitor, df, i, ret, runs, ncalls>>

\* the monitor thread applies a step to the engine and the monitor
MonitorStep(op, sys) ==
    /\ strategy' = sys.live.strategy
    /\ trade_stats' = sys.live.trade_stats
    /\ is_running' = sys.is_running
    /\ monitor' = sys.monitor
    /\ last' = Last(op, R(0), "float", Live(strategy, trade_stats), "none", {}, FALSE)
    /\ UNCHANGED <<mode, engine, df, pc, i, ret, runs, ncalls>>

\* the monitor thread starts: start_monitoring up to the loop
MonitorStart ==
    /\ mode = "system" /\ monitor.pc = "new"
    /\ MonitorStep("start_monitoring",
                   System(Live(strategy, trade_stats), is_running,
                          [monitor EXCEPT !.system_status = "running", !.pc = "loop"]))

\* the loop condition holds: check_system_health
MonitorHealth ==
    /\ mode = "system" /\ monitor.pc = "loop" /\ is_running /\ monitor.rounds < MaxRounds
    /\ \E mg \in MonitorGateways :
        LET sys == CheckSystemHealth(System(Live(strategy, trade_stats), is_running, monitor),
                                     mg)
        IN  MonitorStep("check_system_health", [sys EXCEPT !.monitor.pc = "metrics"])

\* the rest of the loop body: update_performance_metrics, check_alerts,
\* save_monitoring_data, sleep
MonitorMetrics ==
    /\ mode = "system" /\ monitor.pc = "metrics"
    /\ LET sys == CheckAlerts(UpdatePerformanceMetrics(
                        System(Live(strategy, trade_stats), is_running, monitor)))
       IN  MonitorStep("update_performance_metrics",
                       [sys EXCEPT !.monitor.pc = "loop", !.monitor.rounds = @ + 1])

\* the loop condition fails: run_monitoring_loop returns
MonitorExit ==
    /\ mode = "system" /\ monitor.pc = "loop" /\ ~is_running
    /\ MonitorStep("monitoring_loop_exit",
                   System(Live(strategy, trade_stats), is_running,
                          [monitor EXCEPT !.pc = "exited"]))

\* a scheduler job on the trading thread: check_trading_signals
SystemTick ==
    /\ mode = "system" /\ pc = "trading" /\ is_running /\ ncalls < MaxJobs
    /\ \E g \in SystemGateways :
        LET lv == CheckTradingSignals(Live(strategy, trade_stats), g)
        IN  /\ strategy' = lv.strategy
            /\ trade_stats' = lv.trade_stats
            /\ last' = Last("check_trading_signals", g.row.close, "float",
                            Live(strategy, trade_stats),
                            LivePath(Live(strategy, trade_stats), g),
                            LiveCalls(Live(strategy, trade_stats), g), FALSE)
    /\ ncalls' = ncalls + 1
    /\ UNCHANGED <<mode, is_running, monitor, engine, df, pc, i, ret, runs>>

\* a scheduler job on the trading thread: check_position_status
SystemPositionStatus ==
    /\ mode = "system" /\ pc = "trading" /\ is_running /\ ncalls < MaxJobs
    /\ \E g \in SystemGateways :
        LET lv == CheckPositionStatus(Live(strategy, trade_stats), g)
        IN  /\ strategy' = lv.strategy
            /\ trade_stats' = lv.trade_stats
            /\ last' = Last("check_position_status", g.row.close, "float",
                            Live(strategy, trade_stats),
                            PositionStatusPath(Live(strategy, trade_stats), g),
                            PositionStatusCalls(Live(strategy, trade_stats), g), FALSE)
    /\ ncalls' = ncalls + 1
    /\ UNCHANGED <<mode, is_running, monitor, engine, df, pc, i, ret, runs>>

NextSystem ==
    \/ StartTrading
    \/ StartTradingFails
    \/ StopTrading
    \/ SystemTick
    \/ SystemPositionStatus
    \/ MonitorStart
    \/ MonitorHealth
    \/ MonitorMetrics
    \/ MonitorExit

SpecSystem == InitSystem /\ [][NextSystem]_vars

\* each thread keeps running: an iteration of the monitoring loop that has begun
\* completes, and the loop test is made again
SpecSystemFair ==
    SpecSystem /\ WF_vars(MonitorStart) /\ WF_vars(MonitorMetrics) /\ WF_vars(MonitorExit)

----------------------------------------------------------------------------
(* The statistics as functions of the ledger: calculate_results and
   calculate_max_drawdown applied to the ledgers a caller can have built *)

\* a direct call that builds the ledger: at 100 and 110 a round trip can win, lose
\* or realize exactly 0
ScriptCalls ==
    [op : {"execute_buy", "execute_sell", "update_equity_curve"}, price : {R(100), R(110)}]

Scripts == UNION {[1 .. n -> ScriptCalls] : n \in 0 .. MaxScript}

\* the engine after the calls of the script from position k on
RECURSIVE RunScript(_, _, _)
RunScript(e, script, k) ==
    IF k > Len(script) THEN e
    ELSE
        LET c == script[k]
        IN  RunScript(IF c.op = "execute_buy" THEN ExecuteBuy(e, c.price, "float", k)
                      ELSE IF c.op = "execute_sell" THEN ExecuteSell(e, c.price, "float", k)
                      ELSE UpdateEquityCurve(e, c.price, k),
                      script, k + 1)

\* equity values of an equity curve given as such
EquityValues == {R(9000), R(9500), R(10000), R(11000)}

Curves == UNION {[1 .. n -> EquityValues] : n \in 0 .. MaxPoints}

\* the equity_curve list holding the series c
PointsOf(c) == [k \in 1 .. Len(c) |-> [timestamp |-> k, equity |-> c[k], price |-> R(100)]]

StatsEngines ==
    {RunScript(NewBacktestEngine(INITIAL_BALANCE), script, 1) : script \in Scripts}
    \cup {[NewBacktestEngine(INITIAL_BALANCE) EXCEPT !.equity_curve = PointsOf(c)] : c \in Curves}

InitStats ==
    /\ mode = "stats"
    /\ engine \in StatsEngines
    /\ strategy = NewStrategy
    /\ trade_stats = NewTradeStats
    /\ is_running = FALSE
    /\ monitor = NewMonitor
    /\ df = NoData
    /\ pc = "idle"
    /\ i = 0
    /\ ret = NoneVal
    /\ runs = <<>>
    /\ ncalls = 0
    /\ last = Last("init", R(0), "float", NoneVal, "none", {}, FALSE)

\* a caller invoking calculate_results
CallCalculateResults ==
    /\ mode = "stats" /\ pc = "idle"
    /\ engine' = CalculateResults(engine)
    /\ last' = Last("calculate_results", R(0), "float", engine, "none", {}, FALSE)
    /\ pc' = "done"
    /\ UNCHANGED <<mode, is_running, monitor, strategy, trade_stats, df, i, ret, runs, ncalls>>

\* a caller invoking calculate_max_drawdown
CallCalculateMaxDrawdown ==
    /\ mode = "stats" /\ pc = "idle"
    /\ engine' = [engine EXCEPT !.results = CalculateMaxDrawdown(engine, engine.results)]
    /\ last' = Last("calculate_max_drawdown", R(0), "float", engine, "none", {}, FALSE)
    /\ pc' = "done"
    /\ UNCHANGED <<mode, is_running, monitor, strategy, trade_stats, df, i, ret, runs, ncalls>>

\* a caller invoking calculate_results a second time, the ledger being as the
\* first call left it; ret keeps the statistics of the first call
CallCalculateResultsAgain ==
    /\ mode = "stats" /\ pc = "done" /\ last.op = "calculate_results"
    /\ engine' = CalculateResults(engine)
    /\ ret' = engine.results
    /\ last' = Last("calculate_results", R(0), "float", engine, "none", {}, FALSE)
    /\ pc' = "twice"
    /\ UNCHANGED <<mode, is_running, monitor, strategy, trade_stats, df, i, runs, ncalls>>

NextStats ==
    \/ CallCalculateResults
    \/ CallCalculateMaxDrawdown
    \/ CallCalculateResultsAgain

SpecStats == InitStats /\ [][NextStats]_vars

----------------------------------------------------------------------------
(* GoldenCrossStrategy.generate_signals.  Every signal column at index i is
   computed from the indicator columns at i and, through shift(1), at i - 1:
   the frame is kept as these two rows. *)

NaN == [nan |-> TRUE]           \* float NaN: every comparison with it is False
NoRow == [norow |-> TRUE]       \* there is no row at index -1

\* comparisons of two pandas values
FGt(a, b) == a # NaN /\ b # NaN /\ RGt(a, b)
FLt(a, b) == a # NaN /\ b # NaN /\ RLt(a, b)
FGe(a, b) == a # NaN /\ b # NaN /\ RGe(a, b)
FLe(a, b) == a # NaN /\ b # NaN /\ RLe(a, b)
FMul(a, b) == IF a = NaN \/ b = NaN THEN NaN ELSE RMul(a, b)

\* column.shift(1) at the current index
Shift(prev, column) == IF prev = NoRow THEN NaN ELSE prev[column]

\* Faulty variant of GoldenCross: the current comparison is >= instead of >.
GoldenCrossNotStrict(prev, cur) ==
    /\ FGe(cur.MA_short, cur.MA_long)
    /\ FLe(Shift(prev, "MA_short"), Shift(prev, "MA_long"))

GoldenCross(prev, cur) ==
    /\ FGt(cur.MA_short, cur.MA_long)
    /\ FLe(Shift(prev, "MA_short"), Shift(prev, "MA_long"))

DeadCross(prev, cur) ==
    /\ FLt(cur.MA_short, cur.MA_long)
    /\ FGe(Shift(prev, "MA_short"), Shift(prev, "MA_long"))

MacdBullish(prev, cur) ==
    /\ FGt(cur.MACD, cur.MACD_signal)
    /\ FLe(Shift(prev, "MACD"), Shift(prev, "MACD_signal"))

MacdBearish(prev, cur) ==
    /\ FLt(cur.MACD, cur.MACD_signal)
    /\ FGe(Shift(prev, "MACD"), Shift(prev, "MACD_signal"))

VolumeCondition(cur) == FGt(cur.volume, cur.Volume_MA)

\* Faulty variant of BuySignal: the volume condition is missing.
BuySignalAnyVolume(prev, cur) ==
    /\ GoldenCross(prev, cur)
    /\ ~FGt(cur.RSI, R(70))
    /\ ~FGt(cur.close, cur.BB_upper)
    /\ MacdBullish(prev, cur)

BuySignal(prev, cur) ==
    /\ GoldenCross(prev, cur)
    /\ ~FGt(cur.RSI, R(70))                \* ~rsi_overbought
    /\ ~FGt(cur.close, cur.BB_upper)       \* ~bb_overbought
    /\ MacdBullish(prev, cur)
    /\ VolumeCondition(cur)

SellSignal(prev, cur) ==
    /\ DeadCross(prev, cur)
    /\ ~FLt(cur.RSI, R(30))                \* ~rsi_oversold
    /\ ~FLt(cur.close, cur.BB_lower)       \* ~bb_oversold
    /\ MacdBearish(prev, cur)
    /\ VolumeCondition(cur)

\* Faulty variant of ForceSell: the band factor is 0.98 instead of 1.02.
ForceSellInsideBand(cur) ==
    \/ FGt(cur.RSI, R(80))
    \/ FGt(cur.close, FMul(cur.BB_upper, Frac(98, 100)))

ForceSell(cur) ==
    \/ FGt(cur.RSI, R(80))
    \/ FGt(cur.close, FMul(cur.BB_upper, Frac(102, 100)))

\* the signal columns of the current row, with the close should_buy / should_sell log
GenerateSignals(prev, cur) ==
    [close |-> cur.close,
     golden_cross |-> GoldenCross(prev, cur),
     dead_cross |-> DeadCross(prev, cur),
     buy_signal |-> BuySignal(prev, cur),
     sell_signal |-> SellSignal(prev, cur),
     force_sell |-> ForceSell(cur)]

\* calculate_indicators: a rolling indicator is NaN before its window is full
FirstValid ==
    [MA_short |-> SHORT_MA_PERIOD - 1, MA_long |-> LONG_MA_PERIOD - 1,
     RSI |-> RSI_WINDOW - 1, BB |-> BB_WINDOW - 1, Volume_MA |-> VOLUME_WINDOW - 1,
     MACD |-> MACD_SLOW - 1, MACD_signal |-> MACD_SLOW + MACD_SIGN - 2]

\* the values a column takes at index idx
Column(idx, column, values) == IF idx < FirstValid[column] THEN {NaN} ELSE values

\* two levels: a pair of columns can compare <, = and >
Levels == {R(1), R(2)}

\* RSI below 30, at 30, at 70, between 70 and 80, above 80
RSIValues == {R(25), R(30), R(70), R(75), R(85)}

\* the close against the Bollinger bands: above 1.02 * upper; above upper only;
\* at upper; at both; below lower
BBCases ==
    {[close |-> R(100), BB_upper |-> R(95), BB_lower |-> R(90)],
     [close |-> R(100), BB_upper |-> R(99), BB_lower |-> R(90)],
     [close |-> R(100), BB_upper |-> R(100), BB_lower |-> R(90)],
     [close |-> R(100), BB_upper |-> R(100), BB_lower |-> R(100)],
     [close |-> R(100), BB_upper |-> R(110), BB_lower |-> R(105)]}

\* the rows of indicator values the frame can hold at index idx
IndicatorRows(idx, rsis, bbs, volumes) ==
    {[MA_short |-> ms, MA_long |-> ml, RSI |-> rsi, close |-> bb.close,
      BB_upper |-> IF idx < FirstValid.BB THEN NaN ELSE bb.BB_upper,
      BB_lower |-> IF idx < FirstValid.BB THEN NaN ELSE bb.BB_lower,
      MACD |-> m, MACD_signal |-> sg, volume |-> v, Volume_MA |-> vma] :
        ms \in Column(idx, "MA_short", Levels), ml \in Column(idx, "MA_long", Levels),
        rsi \in Column(idx, "RSI", rsis), bb \in bbs,
        m \in Column(idx, "MACD", Levels), sg \in Column(idx, "MACD_signal", Levels),
        v \in volumes, vma \in Column(idx, "Volume_MA", {R(1)})}

\* the current row: every column varies
CurrentRows(idx) == IndicatorRows(idx, RSIValues, BBCases, Levels)

\* the row before: generate_signals reads only its moving averages and its MACD
\* columns, the other columns are held at one value
PreviousRows(idx) ==
    IF idx = 0 THEN {NoRow}
    ELSE IndicatorRows(idx - 1, {R(70)},
                       {[close |-> R(100), BB_upper |-> R(100), BB_lower |-> R(90)]}, {R(1)})

\* the indexes looked at: the first row, the first with Bollinger bands and RSI,
\* the last before long_period, long_period itself, and the first at which the MACD
\* signal line has a value on both rows
SignalIndexes ==
    {0, BB_WINDOW - 1, LONG_MA_PERIOD - 1, LONG_MA_PERIOD, MACD_SLOW + MACD_SIGN - 1}

InitSignals ==
    /\ mode = "signals"
    /\ engine = NewBacktestEngine(INITIAL_BALANCE)
    /\ strategy = NewStrategy
    /\ trade_stats = NewTradeStats
    /\ is_running = FALSE
    /\ monitor = NewMonitor
    /\ \E idx \in SignalIndexes : \E prev \in PreviousRows(idx) : \E cur \in CurrentRows(idx) :
            df = [index |-> idx, prev |-> prev, cur |-> cur, signals |-> NoneVal]
    /\ pc = "idle"
    /\ i = 0
    /\ ret = NoneVal
    /\ runs = <<>>
    /\ ncalls = 0
    /\ last = Last("init", R(0), "float", NoneVal, "none", {}, FALSE)

\* strategy.generate_signals(df)
CallGenerateSignals ==
    /\ mode \in {"signals", "decision"} /\ pc = "idle"
    /\ df' = [df EXCEPT !.signals = GenerateSignals(df.prev, df.cur)]
    /\ last' = Last("generate_signals", df.cur.close, "float", NoneVal, "none", {}, FALSE)
    /\ pc' = "signals"
    /\ UNCHANGED <<mode, is_running, monitor, engine, strategy, trade_stats, i, ret, runs, ncalls>>

\* strategy.should_buy(df, index) and strategy.should_sell(df, index)
CallShouldBuySell ==
    /\ mode = "signals" /\ pc = "signals"
    /\ ret' = [should_buy |-> ShouldBuy(df.signals, df.index),
               should_sell |-> ShouldSell(df.signals, df.index),
               label |-> IF ShouldSell(df.signals, df.index)
                         THEN ShouldSellLabel(df.signals) ELSE "none"]
    /\ last' = Last("should_buy_sell", df.cur.close, "float", NoneVal, "none",
                    {"should_buy", "should_sell"}, FALSE)
    /\ pc' = "done"
    /\ UNCHANGED <<mode, is_running, monitor, engine, strategy, trade_stats, df, i, runs, ncalls>>

NextSignals ==
    \/ CallGenerateSignals
    \/ CallShouldBuySell

SpecSignals == InitSignals /\ [][NextSignals]_vars

----------------------------------------------------------------------------
(* A snapshot taken by the monitor thread while the trading thread is inside a
   tick.  Nothing synchronises the two threads; the interpreter can switch
   threads at a call, and update_position makes one (calculate_stop_loss_take_profit)
   between its assignments.  The assignments that no call separates are taken as
   one step. *)

\* update_position up to the call: position and entry_price are assigned
UpdatePositionEntry(st, position_type, entry_price) ==
    [st EXCEPT !.position = position_type, !.entry_price = entry_price]

InitSnapshot ==
    /\ mode = "snapshot"
    /\ engine = NewBacktestEngine(INITIAL_BALANCE)
    /\ strategy = NewStrategy
    /\ trade_stats = NewTradeStats
    /\ is_running = TRUE
    /\ monitor = NewMonitor
    /\ df = NoData
    /\ pc = "idle"
    /\ i = 0
    /\ ret = NoneVal
    /\ runs = <<>>
    /\ ncalls = 0
    /\ last = Last("init", R(0), "float", NoneVal, "none", {}, FALSE)

\* the trading thread runs check_trading_signals; a tick that buys runs up to
\* the call inside update_position, any other tick runs to its end
SnapshotTick ==
    /\ mode = "snapshot" /\ pc = "idle" /\ ncalls < MaxJobs
    /\ \E g \in SystemGateways :
        LET lv == CheckTradingSignals(Live(strategy, trade_stats), g)
            buys == strategy.position = FLAT /\ lv.strategy.position = LONG
        IN  /\ strategy' = IF buys THEN UpdatePositionEntry(strategy, LONG, g.row.close)
                            ELSE lv.strategy
            /\ trade_stats' = IF buys THEN trade_stats ELSE lv.trade_stats
            /\ pc' = IF buys THEN "update_position" ELSE "idle"
            /\ ncalls' = IF buys THEN ncalls ELSE ncalls + 1
            /\ last' = Last("check_trading_signals", g.row.close, "float",
                            Live(strategy, trade_stats),
                            LivePath(Live(strategy, trade_stats), g),
                            LiveCalls(Live(strategy, trade_stats), g), FALSE)
    /\ UNCHANGED <<mode, is_running, monitor, engine, df, i, ret, runs>>

\* the rest of the buying tick: the stop-loss and take-profit prices are assigned
\* and execute_buy_trade counts the trade
SnapshotTickEnd ==
    /\ mode = "snapshot" /\ pc = "update_position"
    /\ strategy' = UpdatePosition(strategy, strategy.position, strategy.entry_price)
    /\ trade_stats' = [trade_stats EXCEPT !.total_trades = @ + 1]
    /\ pc' = "idle"
    /\ ncalls' = ncalls + 1
    /\ UNCHANGED <<mode, is_running, monitor, engine, df, i, ret, runs, last>>

\* the monitor thread: update_performance_metrics calls get_trading_stats, which
\* calls get_strategy_info
SnapshotRead ==
    /\ mode = "snapshot"
    /\ ret' = GetTradingStats(Live(strategy, trade_stats))
    /\ UNCHANGED <<mode, is_running, monitor, engine, strategy, trade_stats, df, pc, i, runs,
                   ncalls, last>>

NextSnapshot ==
    \/ SnapshotTick
    \/ SnapshotTickEnd
    \/ SnapshotRead

SpecSnapshot == InitSnapshot /\ [][NextSnapshot]_vars

----------------------------------------------------------------------------
(* The same candle given to the live tick and to the backtest step: the signals
   generate_signals computes for it, check_trading_signals on the live strategy
   and one iteration of execute_backtest on the ledger, both starting from the
   same position *)

\* the position the two start from: none, or LONG entered at a price from which
\* a close of 100 is at the take-profit (95), inside the band (100), at the
\* stop-loss (103)
DecisionEntries == {NoneVal, R(95), R(100), R(103)}

\* the indexes looked at: long_period, and the first at which a MACD crossing and
\* so a buy or sell signal can be computed
DecisionIndexes == {LONG_MA_PERIOD, MACD_SLOW + MACD_SIGN - 1}

\* the exchange answering every call of the tick: the frame ends with this row
AllSucceed(row) ==
    [data |-> "ok",
     row |-> [close |-> row.close, buy_signal |-> row.buy_signal,
              sell_signal |-> row.sell_signal, force_sell |-> row.force_sell],
     balance_ok |-> TRUE, usdt_enough |-> TRUE, asset_free |-> R(1),
     amount_ok |-> TRUE, order_ok |-> TRUE]

InitDecision ==
    /\ mode = "decision"
    /\ \E entry \in DecisionEntries :
        /\ engine = IF entry = NoneVal THEN NewBacktestEngine(INITIAL_BALANCE)
                    ELSE ExecuteBuy(NewBacktestEngine(INITIAL_BALANCE), entry, "float", 0)
        /\ strategy = IF entry = NoneVal THEN NewStrategy
                      ELSE UpdatePosition(NewStrategy, LONG, entry)
        /\ trade_stats = IF entry = NoneVal THEN NewTradeStats
                         ELSE [NewTradeStats EXCEPT !.total_trades = 1]
    /\ is_running = FALSE
    /\ monitor = NewMonitor
    /\ \E idx \in DecisionIndexes : \E prev \in PreviousRows(idx) : \E cur \in CurrentRows(idx) :
            df = [index |-> idx, prev |-> prev, cur |-> cur, signals |-> NoneVal]
    /\ pc = "idle"
    /\ i = 0
    /\ ret = NoneVal
    /\ runs = <<>>
    /\ ncalls = 0
    /\ last = Last("init", R(0), "float", NoneVal, "none", {}, FALSE)

\* check_trading_signals on a frame whose last row is the candle
DecisionTick ==
    /\ mode = "decision" /\ pc = "signals"
    /\ LET g == AllSucceed(df.signals)
           lv == CheckTradingSignals(Live(strategy, trade_stats), g)
       IN  /\ strategy' = lv.strategy
           /\ trade_stats' = lv.trade_stats
           /\ ret' = Live(strategy, trade_stats)     \* kept for the comparison
           /\ last' = Last("check_trading_signals", g.row.close, "float",
                           Live(strategy, trade_stats),
                           LivePath(Live(strategy, trade_stats), g),
                           LiveCalls(Live(strategy, trade_stats), g), FALSE)
    /\ pc' = "ticked"
    /\ UNCHANGED <<mode, is_running, monitor, engine, df, i, runs, ncalls>>

\* the iteration of execute_backtest at the candle
DecisionStep ==
    /\ mode = "decision" /\ pc = "ticked"
    /\ engine' = BacktestIteration(engine, df.signals, df.index)
    /\ last' = Last("iteration", df.signals.close, "float", engine,
                    IterationPath(engine, df.signals, df.index),
                    IterationCalls(engine, df.signals, df.index), FALSE)
    /\ pc' = "done"
    /\ UNCHANGED <<mode, is_running, monitor, strategy, trade_stats, df, i, ret, runs, ncalls>>

NextDecision ==
    \/ CallGenerateSignals
    \/ DecisionTick
    \/ DecisionStep

SpecDecision == InitDecision /\ [][NextDecision]_vars

----------------------------------------------------------------------------
(* The one-minute job run several times while the latest candle of the fetched
   frame stays the same one (the frame has one candle per TIMEFRAME, an hour) *)

InitCandle ==
    /\ mode = "candle"
    /\ engine = NewBacktestEngine(INITIAL_BALANCE)
    /\ \E entry \in DecisionEntries :
        /\ strategy = IF entry = NoneVal THEN NewStrategy
                      ELSE UpdatePosition(NewStrategy, LONG, entry)
        /\ trade_stats = IF entry = NoneVal THEN NewTradeStats
                         ELSE [NewTradeStats EXCEPT !.total_trades = 1]
    /\ is_running = FALSE
    /\ monitor = NewMonitor
    /\ \E row \in Rows : df = [latest |-> row]
    /\ pc = "idle"
    /\ i = 0
    /\ ret = NoneVal
    /\ runs = <<Live(strategy, trade_stats)>>
    /\ ncalls = 0
    /\ last = Last("init", R(0), "float", NoneVal, "none", {}, FALSE)

\* check_trading_signals on a frame whose last row is still that candle; runs keeps
\* the position and statistics each tick left
SameCandleTick ==
    /\ mode = "candle" /\ ncalls < MaxTicks
    /\ \E g \in {x \in Gateways : x.row = df.latest} :
        LET lv == CheckTradingSignals(Live(strategy, trade_stats), g)
        IN  /\ strategy' = lv.strategy
            /\ trade_stats' = lv.trade_stats
            /\ runs' = Append(runs, lv)
            /\ last' = Last("check_trading_signals", g.row.close, "float",
                            Live(strategy, trade_stats),
                            LivePath(Live(strategy, trade_stats), g),
                            LiveCalls(Live(strategy, trade_stats), g), FALSE)
    /\ ncalls' = ncalls + 1
    /\ UNCHANGED <<mode, is_running, monitor, engine, df, pc, i, ret>>

SpecCandle == InitCandle /\ [][SameCandleTick]_vars

----------------------------------------------------------------------------
(* Claims C1 - C10 *)

\* the engine before the last handler ran
Before == last.before

\* the last handler sold from a position held, with a numeric price
SoldNow ==
    \/ last.op = "execute_sell" /\ last.kind = "float" /\ Before.position = LONG
    \/ last.op = "iteration" /\ last.path \in {"exit", "sell"}
    \/ last.op = "close_position" /\ Before.position = LONG

\* the last handler bought from FLAT, with a price arithmetic accepts
BoughtNow ==
    \/ last.op = "execute_buy" /\ last.kind # "str" /\ Before.position = FLAT
    \/ last.op = "iteration" /\ last.path = "buy"

LastTrade == engine.trades[Len(engine.trades)]

\* the close is at or below 98% or at or above 105% of the entry price
AtThreshold(close, entry) ==
    \/ RLe(RMul(close, R(100)), RMul(entry, R(100 - STOP_LOSS_PERCENT)))
    \/ RGe(RMul(close, R(100)), RMul(entry, R(100 + TAKE_PROFIT_PERCENT)))

\* C1: on every processed candle that starts LONG with the close at or beyond the
\* stop-loss or take-profit price, the position is sold by the exit check at that
\* close (one SELL record, position FLAT) and neither should_buy nor should_sell
\* is evaluated or acted on.
C1_ExitBeforeSignals ==
    (/\ last.op = "iteration"
     /\ Before.position = LONG
     /\ AtThreshold(last.price, Before.entry_price))
    => /\ last.path = "exit"
       /\ last.calls = {}
       /\ Len(engine.trades) = Len(Before.trades) + 1
       /\ SubSeq(engine.trades, 1, Len(Before.trades)) = Before.trades
       /\ LastTrade.type = "sell"
       /\ LastTrade.price = last.price
       /\ LastTrade.price = Row(df, i - 1).close
       /\ engine.position = FLAT

\* C1 witness: entry at 100, then a candle closing at 97 that also carries a sell
\* signal; the exit check has sold.
C1_Witness ==
    /\ last.op = "iteration"
    /\ Before.position = LONG
    /\ Before.entry_price = R(100)
    /\ last.price = R(97)
    /\ Row(df, i - 1).sell_signal
    /\ engine.position = FLAT

\* C2: once execute_backtest has returned the position is FLAT with size 0, and
\* a position that was still open after the last candle was sold at the last
\* row's close.
C2_EndsFlat ==
    /\ (mode = "backtest" /\ pc \in {"calc", "done"})
        => (engine.position = FLAT /\ engine.position_size = R(0))
    /\ (last.op = "close_position" /\ Before.position # FLAT)
        => /\ Len(engine.trades) = Len(Before.trades) + 1
           /\ LastTrade.type = "sell"
           /\ LastTrade.price = df.rows[Len(df.rows)].close
           /\ LastTrade.timestamp = df.len - 1

\* C2 witness: the loop ended with a position open and the final close sold it.
C2_Witness ==
    /\ last.op = "close_position"
    /\ Before.position = LONG
    /\ engine.position = FLAT

\* C3: after execute_backtest the equity curve holds one point per processed
\* candle, that is len(df) - long_period points.
C3_OnePointPerCandle ==
    (mode = "backtest" /\ pc \in {"calc", "done"} /\ df.len >= LONG_MA_PERIOD)
    => Len(engine.equity_curve) = df.len - LONG_MA_PERIOD

\* C4: execute_buy while LONG and execute_sell while FLAT are raised to the caller
\* and leave the ledger as it was.
C4_InvalidTransitionSurfaced ==
    (\/ last.op = "execute_buy" /\ Before.position = LONG
     \/ last.op = "execute_sell" /\ Before.position = FLAT)
    => (last.raised /\ engine = Before)

\* C5: the engine is FLAT exactly when entry_price and position_size are 0, the
\* strategy is FLAT exactly when entry, stop-loss and take-profit prices are all
\* None, and a position is FLAT or one LONG position.
C5_FlatIffNoEntry ==
    /\ engine.position \in {FLAT, LONG}
    /\ (engine.position = FLAT)
        <=> (engine.entry_price = R(0) /\ engine.position_size = R(0))
    /\ engine.position = LONG
        => (engine.entry_price # R(0) /\ engine.position_size # R(0))
    /\ strategy.position \in {FLAT, LONG}
    /\ (strategy.position = FLAT)
        <=> (/\ strategy.entry_price = NoneVal
             /\ strategy.stop_loss_price = NoneVal
             /\ strategy.take_profit_price = NoneVal)
    /\ strategy.position = LONG
        => (/\ strategy.entry_price # NoneVal
            /\ strategy.stop_loss_price # NoneVal
            /\ strategy.take_profit_price # NoneVal)

\* C5 witness: the live strategy went LONG and was cleared again by a sell.
C5_Witness ==
    /\ mode = "live"
    /\ strategy.position = FLAT
    /\ trade_stats.total_trades > 0
    /\ trade_stats.winning_trades + trade_stats.losing_trades > 0

\* C6: an execute_buy or execute_sell that ended in its except branch left every
\* ledger field as it was before the call.
C6_FaultLeavesLedger ==
    (last.op \in {"execute_buy", "execute_sell"} /\ last.logged)
    => engine = Before

\* C7: a buy from FLAT at price p with balance b spends amount = 0.9 b, holds
\* size = amount / p, leaves balance b - amount, is LONG at entry p and appends one
\* BUY record with p, size, amount and the new balance.
C7_BuyArithmetic ==
    BoughtNow =>
        LET b == Before.balance
            p == last.price
            t == engine.trades[Len(Before.trades) + 1]
        IN  /\ RMul(t.amount, R(10)) = RMul(b, R(9))
            /\ RMul(engine.position_size, p) = t.amount
            /\ RAdd(engine.balance, t.amount) = b
            /\ engine.position = LONG
            /\ engine.entry_price = p
            /\ Len(engine.trades) = Len(Before.trades) + 1
            /\ SubSeq(engine.trades, 1, Len(Before.trades)) = Before.trades
            /\ t.type = "buy"
            /\ t.price = p
            /\ t.size = engine.position_size
            /\ t.balance = engine.balance
            /\ engine.results = Before.results

\* C7 witness: b = 10000 and p = 100 gave amount 9000, size 90, balance 1000.
C7_Witness ==
    /\ BoughtNow
    /\ Before.balance = R(10000)
    /\ last.price = R(100)
    /\ LastTrade.amount = R(9000)
    /\ engine.position_size = R(90)
    /\ engine.balance = R(1000)

\* C8: a sell from LONG at price p credits size * p, appends one SELL record with
\* realized profit size * p - size * entry, resets the position to FLAT, adds one
\* to total_trades, and adds one to winning_trades when the profit is > 0 and to
\* losing_trades otherwise (a profit of exactly 0 is a losing trade).
C8_SellArithmetic ==
    SoldNow =>
        LET size == Before.position_size
            p == last.price
            proceeds == RMul(size, p)
            profit == RSub(proceeds, RMul(size, Before.entry_price))
            t == engine.trades[Len(Before.trades) + 1]
            won == profit.n > 0
        IN  /\ engine.balance = RAdd(Before.balance, proceeds)
            /\ Len(engine.trades) = Len(Before.trades) + 1
            /\ SubSeq(engine.trades, 1, Len(Before.trades)) = Before.trades
            /\ t.type = "sell"
            /\ t.price = p
            /\ t.size = size
            /\ t.amount = proceeds
            /\ t.profit = profit
            /\ t.balance = engine.balance
            /\ engine.position = FLAT
            /\ engine.position_size = R(0)
            /\ engine.entry_price = R(0)
            /\ engine.results.total_trades = Before.results.total_trades + 1
            /\ engine.results.winning_trades =
                    Before.results.winning_trades + (IF won THEN 1 ELSE 0)
            /\ engine.results.losing_trades =
                    Before.results.losing_trades + (IF won THEN 0 ELSE 1)

\* C8 witness: a sell at the entry price recorded a profit of exactly 0 and was
\* counted as a losing trade.
C8_Witness ==
    /\ SoldNow
    /\ LastTrade.type = "sell"
    /\ LastTrade.profit = R(0)
    /\ engine.results.losing_trades = Before.results.losing_trades + 1
    /\ engine.results.winning_trades = Before.results.winning_trades

\* C9: a run over fewer than long_period candles ends inside run_backtest itself
\* (no iteration, so no signal evaluated), with no trade, no equity point, zero
\* trades and 0 for total_return, win_rate, max_drawdown, sharpe_ratio and
\* profit_factor in the engine's results.
C9_ShortDataZeroStats ==
    (mode = "backtest" /\ pc = "done" /\ df.len < LONG_MA_PERIOD)
    => /\ last.op = "run_backtest"
       /\ last.calls = {}
       /\ engine.trades = <<>>
       /\ engine.equity_curve = <<>>
       /\ engine.results.total_trades = 0
       /\ engine.results.winning_trades = 0
       /\ engine.results.losing_trades = 0
       /\ engine.results.total_return = R(0)
       /\ engine.results.win_rate = R(0)
       /\ engine.results.max_drawdown = R(0)
       /\ engine.results.sharpe_ratio = R(0)
       /\ engine.results.profit_factor = R(0)
       /\ runs[Len(runs)].trades = <<>>
       /\ runs[Len(runs)].results = engine.results

\* C9 witness: a frame of long_period - 1 rows was fetched and the run is over.
C9_Witness ==
    /\ mode = "backtest" /\ pc = "done"
    /\ ~df.isnone
    /\ df.len = LONG_MA_PERIOD - 1

----------------------------------------------------------------------------
(* Claims C11 - C20 *)

\* C11: in every state of a backtest run (prices and initial balance strictly
\* positive) the cash balance is not negative, and neither is the balance any
\* BUY or SELL record (forced close included) carries.
C11_BalanceNeverNegative ==
    mode = "backtest" =>
        /\ RGe(engine.balance, R(0))
        /\ \A k \in 1 .. Len(engine.trades) : RGe(engine.trades[k].balance, R(0))

\* C11 witness: a run bought, sold, bought again and was closed by the forced
\* close after the last candle.
C11_Witness ==
    /\ mode = "backtest"
    /\ last.op = "close_position"
    /\ Before.position = LONG
    /\ Len(engine.trades) = 4
    /\ RGt(engine.balance, R(0))

\* C12: a long entry at price e has stop_loss = e * (1 - SL%/100) and take_profit =
\* e * (1 + TP%/100); a handler that starts LONG and sees a current price exits
\* exactly when that price is <= stop_loss or >= take_profit; and the exit SELL is
\* recorded at the current price, not at the threshold price.
C12_ExitAtCurrentPrice ==
    /\ strategy.position = LONG
        => /\ RMul(strategy.stop_loss_price, R(100))
                = RMul(strategy.entry_price, R(100 - STOP_LOSS_PERCENT))
           /\ RMul(strategy.take_profit_price, R(100))
                = RMul(strategy.entry_price, R(100 + TAKE_PROFIT_PERCENT))
    /\ (last.op = "iteration" /\ Before.position = LONG)
        => /\ (last.path = "exit") <=> AtThreshold(last.price, Before.entry_price)
           /\ last.path = "exit"
                => /\ Len(engine.trades) = Len(Before.trades) + 1
                   /\ LastTrade.type = "sell"
                   /\ LastTrade.price = last.price
                   /\ LastTrade.amount = RMul(Before.position_size, last.price)
    /\ (/\ last.op \in {"check_trading_signals", "check_position_status"}
        /\ Before.strategy.position = LONG
        /\ last.path # "nodata")
        => ((last.path = "exit") <=> AtThreshold(last.price, Before.strategy.entry_price))

\* C12 witness: entry at 100 (stop_loss 98, take_profit 105), a candle closing at
\* 97: the exit SELL is recorded at 97.
C12_Witness ==
    /\ last.op = "iteration"
    /\ last.path = "exit"
    /\ Before.entry_price = R(100)
    /\ StopLoss(Before.entry_price) = R(98)
    /\ TakeProfit(Before.entry_price) = R(105)
    /\ last.price = R(97)
    /\ LastTrade.price = R(97)

\* C13: a buy signal on a candle that starts LONG, and a sell or force-sell signal
\* on a candle that starts FLAT, make no transition: balance, position, position
\* size, entry price, trade log and counters are as before (the backtest step only
\* appends its equity point), in the backtest step and in the live tick.
C13_ReentrantSignalNoOp ==
    /\ (/\ last.op = "iteration"
        /\ last.path # "exit"
        /\ \/ Before.position = LONG /\ Row(df, i - 1).buy_signal
           \/ Before.position = FLAT
                /\ (Row(df, i - 1).sell_signal \/ Row(df, i - 1).force_sell))
        => /\ [engine EXCEPT !.equity_curve = Before.equity_curve] = Before
           /\ last.path = "none"
    /\ (/\ last.op = "check_trading_signals"
        /\ \/ last.path = "buy" /\ Before.strategy.position = LONG
           \/ last.path = "sell" /\ Before.strategy.position = FLAT)
        => Live(strategy, trade_stats) = Before

\* C13 witness: a candle with a buy signal was processed while LONG (the exit
\* check did not fire) and the position is the one held before.
C13_Witness ==
    /\ last.op = "iteration"
    /\ Before.position = LONG
    /\ Row(df, i - 1).buy_signal
    /\ last.path = "none"
    /\ engine.position = LONG
    /\ engine.trades = Before.trades
    /\ Len(engine.equity_curve) = Len(Before.equity_curve) + 1

\* the sum of the realized profits > 0 (wins) or of the absolute realized profits
\* <= 0 (losses) over the SELL records from position k on
RECURSIVE ProfitSum(_, _, _)
ProfitSum(trades, k, wins) ==
    IF k > Len(trades) THEN R(0)
    ELSE
        LET t == trades[k]
            rest == ProfitSum(trades, k + 1, wins)
        IN  IF t.type # "sell" THEN rest
            ELSE IF wins /\ t.profit.n > 0 THEN RAdd(t.profit, rest)
            ELSE IF ~wins /\ t.profit.n <= 0 THEN RAdd(RNeg(t.profit), rest)
            ELSE rest

\* C14: in the statistics calculate_results leaves, profit_factor is 0 when no
\* trade lost or every losing trade has profit exactly 0, and win_rate is 0 when
\* total_trades is 0; otherwise profit_factor = sum of the profits > 0 over the sum
\* of the absolute profits <= 0, and win_rate = winning_trades / total_trades * 100.
C14_Ratios ==
    last.op = "calculate_results" =>
        LET r == engine.results
            wins == ProfitSum(engine.trades, 1, TRUE)
            losses == ProfitSum(engine.trades, 1, FALSE)
        IN  /\ r.losing_trades = 0 => r.profit_factor = R(0)
            /\ losses = R(0) => r.profit_factor = R(0)
            /\ losses # R(0) => RMul(r.profit_factor, losses) = wins
            /\ r.total_trades = 0 => r.win_rate = R(0)
            /\ r.total_trades > 0
                => RMul(r.win_rate, R(r.total_trades)) = R(100 * r.winning_trades)

\* C14 witness: one winning trade and one losing trade whose profit is exactly 0:
\* profit_factor is 0 and win_rate is 50.
C14_Witness ==
    /\ last.op = "calculate_results"
    /\ engine.results.winning_trades = 1
    /\ engine.results.losing_trades = 1
    /\ ProfitSum(engine.trades, 1, TRUE) # R(0)
    /\ ProfitSum(engine.trades, 1, FALSE) = R(0)
    /\ engine.results.profit_factor = R(0)
    /\ engine.results.win_rate = R(50)

\* the equity series of the engine
EquitySeries(e) == [k \in 1 .. Len(e.equity_curve) |-> e.equity_curve[k].equity]

\* the largest of a non-empty set of rationals
RMax(S) == CHOOSE x \in S : \A y \in S : RGe(x, y)

\* (running peak - equity) / running peak * 100 at position k of the series
DrawdownAt(v, k) ==
    LET peak == RMax({v[j] : j \in 1 .. k})
    IN  RMul(RDiv(RSub(peak, v[k]), peak), R(100))

\* C15: max_drawdown, as calculate_max_drawdown leaves it, is the maximum over the
\* equity series of (running peak - equity) / running peak * 100, the running peak
\* being the largest equity up to and including the point; it is 0 for an empty
\* series and for a non-decreasing one.
C15_MaxDrawdown ==
    last.op = "calculate_max_drawdown" =>
        LET v == EquitySeries(engine)
            dd == engine.results.max_drawdown
        IN  /\ v = <<>> => dd = R(0)
            /\ v # <<>> => dd = RMax({DrawdownAt(v, k) : k \in 1 .. Len(v)})
            /\ (\A k \in 1 .. Len(v) - 1 : RLe(v[k], v[k + 1])) => dd = R(0)

\* C15 witness: the equity series [10000, 11000, 9000, 9500] gave
\* 2000 / 11000 * 100.
C15_Witness ==
    /\ last.op = "calculate_max_drawdown"
    /\ EquitySeries(engine) = <<R(10000), R(11000), R(9000), R(9500)>>
    /\ engine.results.max_drawdown = RDiv(R(2000 * 100), R(11000))

\* generate_signals has run on the frame
SignalsGenerated == mode = "signals" /\ pc \in {"signals", "done"}

\* the four moving-average values at i and i - 1 exist
CrossDefined ==
    /\ df.index >= 1
    /\ df.cur.MA_short # NaN /\ df.cur.MA_long # NaN
    /\ df.prev.MA_short # NaN /\ df.prev.MA_long # NaN

\* C16: golden_cross is true at index i exactly when ma_short[i] > ma_long[i] and
\* ma_short[i-1] <= ma_long[i-1]; dead_cross exactly when ma_short[i] < ma_long[i]
\* and ma_short[i-1] >= ma_long[i-1]; the two are never true on the same candle.
C16_Crosses ==
    SignalsGenerated =>
        /\ df.signals.golden_cross
            <=> (/\ CrossDefined
                 /\ RGt(df.cur.MA_short, df.cur.MA_long)
                 /\ RLe(df.prev.MA_short, df.prev.MA_long))
        /\ df.signals.dead_cross
            <=> (/\ CrossDefined
                 /\ RLt(df.cur.MA_short, df.cur.MA_long)
                 /\ RGe(df.prev.MA_short, df.prev.MA_long))
        /\ ~(df.signals.golden_cross /\ df.signals.dead_cross)

\* C16 witness: the short average was equal to the long one on the row before and
\* is above it now: golden_cross is true and dead_cross is not.
C16_Witness ==
    /\ SignalsGenerated
    /\ df.index = LONG_MA_PERIOD
    /\ df.prev.MA_short = df.prev.MA_long
    /\ df.signals.golden_cross
    /\ ~df.signals.dead_cross

\* C17: buy_signal is true exactly when golden_cross, RSI <= 70, close <= bb_upper,
\* MACD above its signal line now and not above it on the row before, and
\* volume > volume_ma all hold; sell_signal exactly when dead_cross, RSI >= 30,
\* close >= bb_lower, MACD below its signal line now and not below it on the row
\* before, and volume > volume_ma all hold.
C17_FiveConditions ==
    SignalsGenerated =>
        /\ df.signals.buy_signal
            <=> (/\ df.signals.golden_cross
                 /\ FLe(df.cur.RSI, R(70))
                 /\ FLe(df.cur.close, df.cur.BB_upper)
                 /\ FGt(df.cur.MACD, df.cur.MACD_signal)
                 /\ df.index >= 1
                 /\ FLe(df.prev.MACD, df.prev.MACD_signal)
                 /\ FGt(df.cur.volume, df.cur.Volume_MA))
        /\ df.signals.sell_signal
            <=> (/\ df.signals.dead_cross
                 /\ FGe(df.cur.RSI, R(30))
                 /\ FGe(df.cur.close, df.cur.BB_lower)
                 /\ FLt(df.cur.MACD, df.cur.MACD_signal)
                 /\ df.index >= 1
                 /\ FGe(df.prev.MACD, df.prev.MACD_signal)
                 /\ FGt(df.cur.volume, df.cur.Volume_MA))

\* C17 witness: a buy signal with RSI exactly 70 and the close exactly at the
\* upper band.
C17_Witness ==
    /\ SignalsGenerated
    /\ df.signals.buy_signal
    /\ df.cur.RSI = R(70)
    /\ df.cur.close = df.cur.BB_upper

\* C18: at every index before long_period the five signal columns golden_cross,
\* dead_cross, buy_signal, sell_signal and force_sell are all false.
C18_NoSignalBeforeLongPeriod ==
    (SignalsGenerated /\ df.index < LONG_MA_PERIOD)
    => /\ ~df.signals.golden_cross
       /\ ~df.signals.dead_cross
       /\ ~df.signals.buy_signal
       /\ ~df.signals.sell_signal
       /\ ~df.signals.force_sell

\* C19: when sell_signal and force_sell are both true on a candle that is sold on
\* the signal, should_sell labels the exit as a forced exit in its log line and the
\* step leaves the ledger a plain sell_signal would leave.
C19_SellAndForceLabel ==
    (/\ last.op = "iteration"
     /\ last.path = "sell"
     /\ Row(df, i - 1).sell_signal
     /\ Row(df, i - 1).force_sell)
    => /\ ShouldSellLabel(Row(df, i - 1)) = "forced exit"
       /\ engine = BacktestIteration(Before, [Row(df, i - 1) EXCEPT !.force_sell = FALSE],
                                     i - 1)

\* the steps of the monitor thread
MonitorOps ==
    {"start_monitoring", "check_system_health", "update_performance_metrics",
     "monitoring_loop_exit"}

\* C20: however the monitor thread and the trading thread interleave, no step of
\* the monitor thread changes the strategy's position, entry_price,
\* stop_loss_price or take_profit_price or the engine's trade_stats; when one of
\* them changed, the step was a job of the trading thread.
C20_MonitorNeverWrites ==
    /\ last.op \in MonitorOps
        => (strategy = Before.strategy /\ trade_stats = Before.trade_stats)
    /\ (mode = "system" /\ last.op # "init" /\ Live(strategy, trade_stats) # Before)
        => last.op \in {"check_trading_signals", "check_position_status"}

\* C20 witness: the monitor read the statistics after a losing sale by the trading
\* thread while a round of it was under way, and the statistics are as the trading
\* thread left them.
C20_Witness ==
    /\ mode = "system"
    /\ last.op = "update_performance_metrics"
    /\ trade_stats.losing_trades = 1
    /\ monitor.performance_metrics.losing_trades = 1
    /\ trade_stats = Before.trade_stats
    /\ strategy = Before.strategy

----------------------------------------------------------------------------
(* Claims C21 - C30 *)

\* the two scheduler jobs of the trading engine
LiveOps == {"check_trading_signals", "check_position_status"}

\* the last handler placed an order of this kind and the exchange returned an order
OrderFilled(order_call) ==
    order_call \in last.calls /\ ~((order_call \o " failed") \in last.calls)

\* C21: in a live handler the strategy becomes LONG, and total_trades is
\* incremented, only when place_market_buy_order returned an order; the position is
\* cleared, and the win/loss counters and total_profit are updated, only when
\* place_market_sell_order returned an order; an order that failed leaves the
\* position and the statistics as they were.
C21_OrderConfirmsTransition ==
    last.op \in LiveOps =>
        /\ (strategy.position = LONG /\ Before.strategy.position = FLAT)
            => OrderFilled("place_market_buy_order")
        /\ trade_stats.total_trades # Before.trade_stats.total_trades
            => (/\ OrderFilled("place_market_buy_order")
                /\ trade_stats.total_trades = Before.trade_stats.total_trades + 1
                /\ strategy.position = LONG)
        /\ (strategy.position = FLAT /\ Before.strategy.position = LONG)
            => OrderFilled("place_market_sell_order")
        /\ (\/ trade_stats.winning_trades # Before.trade_stats.winning_trades
            \/ trade_stats.losing_trades # Before.trade_stats.losing_trades
            \/ trade_stats.total_profit # Before.trade_stats.total_profit)
            => (OrderFilled("place_market_sell_order") /\ strategy.position = FLAT)
        /\ (\/ "place_market_buy_order failed" \in last.calls
            \/ "place_market_sell_order failed" \in last.calls)
            => Live(strategy, trade_stats) = Before

\* C21 witness: a position entered by a filled buy order is still held, with the
\* statistics untouched, after a tick whose sell order failed.
C21_Witness ==
    /\ last.op = "check_trading_signals"
    /\ "place_market_sell_order failed" \in last.calls
    /\ strategy.position = LONG
    /\ trade_stats.total_trades = 1
    /\ trade_stats.winning_trades + trade_stats.losing_trades = 0

\* a gateway call of the last handler answered nothing: the candle fetch, the
\* balance query or the order-size computation
GatewayFailed ==
    \/ "get_historical_data failed" \in last.calls
    \/ "get_account_balance failed" \in last.calls
    \/ "calculate_order_amount failed" \in last.calls

\* C22: a live tick during which the candle fetch, the balance query or the
\* order-size computation failed applies no transition, leaves the position and
\* trade_stats as they were and raises nothing to the scheduler, so that the next
\* tick starts from the state the failed one found.
C22_GatewayFailureSkipsTick ==
    (last.op = "check_trading_signals" /\ GatewayFailed)
    => /\ strategy = Before.strategy
       /\ trade_stats = Before.trade_stats
       /\ ~last.raised

\* C22 witness: a position is held, the price is beyond the stop-loss and the
\* balance query of the exit failed: the position is kept for the next tick.
C22_Witness ==
    /\ last.op = "check_trading_signals"
    /\ last.path = "exit"
    /\ "get_account_balance failed" \in last.calls
    /\ strategy.position = LONG
    /\ strategy = Before.strategy

\* what a live handler did, read from the statistics it updated
LiveDecision(before, after) ==
    IF after.trade_stats.total_trades # before.trade_stats.total_trades THEN "buy"
    ELSE IF after.trade_stats.winning_trades + after.trade_stats.losing_trades
            # before.trade_stats.winning_trades + before.trade_stats.losing_trades
         THEN "sell"
    ELSE "none"

\* what a backtest step did, read from the trade log
BacktestDecision(before, after) ==
    IF Len(after.trades) = Len(before.trades) THEN "none"
    ELSE after.trades[Len(after.trades)].type

\* C23: for every candle generate_signals can produce and every position (FLAT, or
\* LONG with an entry price), the live tick with every gateway call succeeding and
\* the iteration of execute_backtest take the same decision among buy, sell and
\* none, also when several signals are true on the candle.
C23_SameDecision ==
    (mode = "decision" /\ pc = "done")
    => LiveDecision(ret, Live(strategy, trade_stats)) = BacktestDecision(Before, engine)

\* C23 witness: a candle with sell_signal and force_sell both true, met while LONG
\* inside the stop-loss / take-profit band: both sold.
C23_Witness ==
    /\ mode = "decision" /\ pc = "done"
    /\ df.signals.sell_signal /\ df.signals.force_sell
    /\ Before.position = LONG
    /\ ret.strategy.position = LONG
    /\ BacktestDecision(Before, engine) = "sell"
    /\ LiveDecision(ret, Live(strategy, trade_stats)) = "sell"
    /\ strategy.position = FLAT /\ engine.position = FLAT

\* the number of ticks of the history that changed the position or the statistics
Transitions(history) ==
    Cardinality({k \in 1 .. Len(history) - 1 : history[k + 1] # history[k]})

\* C24: one invocation of check_trading_signals applies at most one position
\* transition (it never both sells and buys), and a candle is acted on at most
\* once: of the ticks that see the same latest candle at most one applies a
\* transition.
C24_CandleActedOnce ==
    /\ last.op = "check_trading_signals"
        => ~(/\ trade_stats.total_trades # Before.trade_stats.total_trades
             /\ trade_stats.winning_trades + trade_stats.losing_trades
                    # Before.trade_stats.winning_trades + Before.trade_stats.losing_trades)
    /\ mode = "candle" => Transitions(runs) <= 1

\* C25: in no reachable state is the position of the backtest ledger or of the
\* live strategy SHORT: it is FLAT (None) or LONG, and the levels of a held position
\* are those of a long one (stop-loss below the entry, take-profit above it).
C25_NeverShort ==
    /\ engine.position # "short"
    /\ strategy.position # "short"
    /\ engine.position \in {FLAT, LONG}
    /\ strategy.position \in {FLAT, LONG}
    /\ \A k \in 1 .. Len(engine.trades) : engine.trades[k].type \in {"buy", "sell"}
    /\ strategy.position # FLAT
        => /\ RLt(strategy.stop_loss_price, strategy.entry_price)
           /\ RGt(strategy.take_profit_price, strategy.entry_price)

\* C25 witness: a sell signal met while LONG was followed by a filled sell order:
\* the live strategy is FLAT.
C25_Witness ==
    /\ last.op = "check_trading_signals"
    /\ last.path = "sell"
    /\ Before.strategy.position = LONG
    /\ OrderFilled("place_market_sell_order")
    /\ strategy.position = FLAT

\* the ledger fields: balance, position (with its size and entry price), trade log
\* and equity curve
Ledger(e) ==
    [balance |-> e.balance, position |-> e.position, position_size |-> e.position_size,
     entry_price |-> e.entry_price, trades |-> e.trades, equity_curve |-> e.equity_curve]

\* C26: during a backtest the balance, position, trade log and equity curve change
\* only through execute_buy, execute_sell and update_equity_curve: an iteration in
\* which should_buy and should_sell were called and neither trade was made only
\* appends the equity point, the steps outside execute_backtest leave the ledger
\* as it was, and the strategy keeps position, entry_price, stop_loss_price and
\* take_profit_price at None throughout.
C26_OnlyLedgerMethodsWrite ==
    mode = "backtest" =>
        /\ strategy = NewStrategy
        /\ (last.op = "iteration" /\ last.path = "none")
            => /\ last.calls = {"should_buy", "should_sell"}
               /\ engine = UpdateEquityCurve(Before, last.price, i - 1)
               /\ [Ledger(engine) EXCEPT !.equity_curve = Before.equity_curve]
                    = Ledger(Before)
        /\ (last.op = "iteration" /\ last.path = "buy")
            => /\ last.calls = {"should_buy"}
               /\ engine = UpdateEquityCurve(ExecuteBuy(Before, last.price, "float", i - 1),
                                             last.price, i - 1)
        /\ (last.op = "iteration" /\ last.path = "sell")
            => engine = UpdateEquityCurve(ExecuteSell(Before, last.price, "float", i - 1),
                                          last.price, i - 1)
        /\ last.op \in {"run_backtest", "calculate_results"}
            => Ledger(engine) = Ledger(Before)

\* C26 witness: the ledger is LONG, an iteration called should_buy and should_sell
\* on a candle with a buy signal and made no trade, and the strategy is FLAT.
C26_Witness ==
    /\ mode = "backtest"
    /\ last.op = "iteration"
    /\ last.calls = {"should_buy", "should_sell"}
    /\ Row(df, i - 1).buy_signal
    /\ engine.position = LONG
    /\ Ledger(engine).trades = Ledger(Before).trades
    /\ strategy.position = FLAT
    /\ strategy.entry_price = NoneVal

\* C27: calculate_results leaves the balance, position, trade log and equity curve
\* as they were, and a second call on the ledger the first one left gives the
\* statistics the first one gave.
C27_ResultsRecomputed ==
    last.op = "calculate_results" =>
        /\ Ledger(engine) = Ledger(Before)
        /\ engine.initial_balance = Before.initial_balance
        /\ (mode = "stats" /\ pc = "twice") => engine.results = ret

\* C27 witness: calculate_results ran twice on a ledger with a completed trade and
\* an equity curve with a drawdown; the statistics, not the defaults, are those of
\* the first call.
C27_Witness ==
    /\ mode = "stats" /\ pc = "twice"
    /\ engine.results.total_trades >= 1
    /\ engine.results.total_return # R(0)
    /\ engine.results.max_drawdown # R(0)
    /\ engine.results = ret

\* the last handler ended with update_equity_curve
RecordedNow ==
    \/ last.op = "update_equity_curve"
    \/ last.op = "iteration" /\ last.path # "exit"

LastPoint == engine.equity_curve[Len(engine.equity_curve)]

\* C28: the equity point update_equity_curve records is balance + position_size *
\* close when the position is LONG and the balance when FLAT; the point recorded on
\* the candle of a buy is the balance held just before that buy; and every
\* recorded equity is strictly positive (prices being positive).
C28_EquityPoint ==
    /\ RecordedNow =>
        /\ Len(engine.equity_curve) = Len(Before.equity_curve) + 1
        /\ LastPoint.price = last.price
        /\ engine.position = LONG
            => LastPoint.equity = RAdd(engine.balance, RMul(engine.position_size, last.price))
        /\ engine.position = FLAT => LastPoint.equity = engine.balance
    /\ (last.op = "iteration" /\ last.path = "buy") => LastPoint.equity = Before.balance
    /\ \A k \in 1 .. Len(engine.equity_curve) : RGt(engine.equity_curve[k].equity, R(0))

\* C28 witness: a candle closing at 97 bought with a balance of 10000: 1000 are left
\* in cash, the position is worth 9000, the point recorded is 10000.
C28_Witness ==
    /\ last.op = "iteration" /\ last.path = "buy"
    /\ last.price = R(97)
    /\ Before.balance = R(10000)
    /\ engine.balance = R(1000)
    /\ engine.position_size = Frac(9000, 97)
    /\ LastPoint.equity = R(10000)

\* the sum of the realized profits of the SELL records of the trade log
RealizedProfit(trades) == RSub(ProfitSum(trades, 1, TRUE), ProfitSum(trades, 1, FALSE))

\* C29: whenever the ledger of a backtest run is FLAT, balance = initial_balance +
\* the sum of the realized profits of the SELL records so far; hence once the run
\* is complete total_return = that sum / initial_balance * 100.
C29_BalanceIsRealizedProfit ==
    mode = "backtest" =>
        /\ engine.position = FLAT
            => engine.balance = RAdd(engine.initial_balance, RealizedProfit(engine.trades))
        /\ pc = "done"
            => engine.results.total_return
                = RMul(RDiv(RealizedProfit(engine.trades), engine.initial_balance), R(100))

\* C29 witness: 10000, one buy at 100 and one sell at 110: the realized profit is
\* 900, the balance 10900 and total_return 9.
C29_Witness ==
    /\ mode = "backtest" /\ pc = "done"
    /\ Len(engine.trades) = 2
    /\ engine.trades[1].price = R(100)
    /\ engine.trades[2].price = R(110)
    /\ RealizedProfit(engine.trades) = R(900)
    /\ engine.balance = R(10900)
    /\ engine.results.total_return = R(9)

\* the number of records of the type in the trade log
CountType(trades, type) == Cardinality({k \in 1 .. Len(trades) : trades[k].type = type})

\* C30: the trade log of a backtest run is append-only and alternates BUY, SELL,
\* BUY, SELL, ... from a BUY; there is one BUY more than SELLs exactly while LONG,
\* and as many of each while FLAT and once execute_backtest has returned.
C30_TradeLogAlternates ==
    mode = "backtest" =>
        /\ \A k \in 1 .. Len(engine.trades) :
                engine.trades[k].type = IF k % 2 = 1 THEN "buy" ELSE "sell"
        /\ (engine.position = LONG)
            <=> (CountType(engine.trades, "buy") = CountType(engine.trades, "sell") + 1)
        /\ (engine.position = FLAT)
            <=> (CountType(engine.trades, "buy") = CountType(engine.trades, "sell"))
        /\ pc \in {"calc", "done"}
            => CountType(engine.trades, "buy") = CountType(engine.trades, "sell")
        /\ last.op \in {"iteration", "close_position", "calculate_results"}
            => /\ Len(engine.trades) >= Len(Before.trades)
               /\ SubSeq(engine.trades, 1, Len(Before.trades)) = Before.trades

\* C30 witness: a run that bought, sold, bought again and was closed after the last
\* candle: BUY, SELL, BUY, SELL.
C30_Witness ==
    /\ mode = "backtest" /\ pc = "done"
    /\ Len(engine.trades) = 4
    /\ CountType(engine.trades, "buy") = 2
    /\ CountType(engine.trades, "sell") = 2
    /\ engine.position = FLAT

(***************************************************************************)
(* Claims C31 - C38                                                        *)
(***************************************************************************)

\* the SELL records of the trade log whose profit is positive (wins) or not (~wins)
SellsWith(trades, wins) ==
    {k \in 1 .. Len(trades) :
        /\ trades[k].type = "sell"
        /\ (wins <=> RGt(trades[k].profit, R(0)))}

\* C31: in every state of a backtest engine, driven by run_backtest or by direct
\* calls, total_trades = winning_trades + losing_trades = the number of SELL
\* records; winning_trades is the number of SELL records with profit > 0 and
\* losing_trades the number of SELL records with profit <= 0.
C31_CountersMatchLog ==
    mode \in {"backtest", "ledger"} =>
        /\ engine.results.total_trades
              = engine.results.winning_trades + engine.results.losing_trades
        /\ engine.results.total_trades = CountType(engine.trades, "sell")
        /\ engine.results.winning_trades = Cardinality(SellsWith(engine.trades, TRUE))
        /\ engine.results.losing_trades = Cardinality(SellsWith(engine.trades, FALSE))

\* C31 witness: a run with one winning sale and one sale that was not a win.
C31_Witness ==
    /\ mode = "backtest"
    /\ engine.results.total_trades = 2
    /\ engine.results.winning_trades = 1
    /\ engine.results.losing_trades = 1
    /\ Cardinality(SellsWith(engine.trades, TRUE)) = 1
    /\ Cardinality(SellsWith(engine.trades, FALSE)) = 1

\* C32: in the live engine total_trades = winning_trades + losing_trades in every
\* state, and the win_rate get_trading_stats returns is the share of the closed
\* trades that were winners.
C32_LiveCountersAgree ==
    mode = "live" =>
        LET closed == trade_stats.winning_trades + trade_stats.losing_trades
        IN  /\ trade_stats.total_trades = closed
            /\ closed > 0
                => GetTradingStats(Live(strategy, trade_stats)).win_rate
                       = RMul(Frac(trade_stats.winning_trades, closed), R(100))

\* a backtest iteration that left through check_exit_conditions
BacktestExit == mode = "backtest" /\ last.op = "iteration" /\ last.path = "exit"

\* a live handler that left through check_stop_loss_take_profit and whose sell
\* order was filled
LiveExit == last.op \in LiveOps /\ last.path = "exit" /\ OrderFilled("place_market_sell_order")

\* C33: an exit taken through the take-profit condition records a realized profit
\* > 0 and is counted as a winning trade; an exit taken through the stop-loss
\* condition records a realized profit < 0 and is counted as a losing trade (in
\* the backtest ledger and in the live statistics alike).
C33_ExitProfitSign ==
    /\ BacktestExit =>
        /\ LastTrade.type = "sell" /\ LastTrade.price = last.price
        /\ RGe(last.price, TakeProfit(Before.entry_price))
            => /\ RGt(LastTrade.profit, R(0))
               /\ engine.results.winning_trades = Before.results.winning_trades + 1
               /\ engine.results.losing_trades = Before.results.losing_trades
        /\ RLe(last.price, StopLoss(Before.entry_price))
            => /\ RLt(LastTrade.profit, R(0))
               /\ engine.results.losing_trades = Before.results.losing_trades + 1
               /\ engine.results.winning_trades = Before.results.winning_trades
    /\ LiveExit =>
        LET profit == RSub(trade_stats.total_profit, Before.trade_stats.total_profit)
        IN  /\ RGe(last.price, Before.strategy.take_profit_price)
                => /\ RGt(profit, R(0))
                   /\ trade_stats.winning_trades = Before.trade_stats.winning_trades + 1
                   /\ trade_stats.losing_trades = Before.trade_stats.losing_trades
            /\ RLe(last.price, Before.strategy.stop_loss_price)
                => /\ RLt(profit, R(0))
                   /\ trade_stats.losing_trades = Before.trade_stats.losing_trades + 1
                   /\ trade_stats.winning_trades = Before.trade_stats.winning_trades

\* C33 witness: a position of 90 units entered at 100 is stopped out at 97, a loss
\* of 270 counted as a losing trade.
C33_Witness ==
    /\ BacktestExit
    /\ Before.entry_price = R(100)
    /\ last.price = R(97)
    /\ RLe(last.price, StopLoss(Before.entry_price))
    /\ LastTrade.profit = R(-270)
    /\ engine.results.winning_trades = 0
    /\ engine.results.losing_trades = 1

\* C34: on a candle whose upper Bollinger band is positive (or not yet computed),
\* buy_signal is never true together with sell_signal nor together with
\* force_sell, so should_buy and should_sell are never both true for the candle.
C34_BuyExcludesSell ==
    (/\ mode = "signals" /\ pc \in {"signals", "done"}
     /\ (df.cur.BB_upper = NaN \/ RGt(df.cur.BB_upper, R(0))))
    => /\ ~(df.signals.buy_signal /\ df.signals.sell_signal)
       /\ ~(df.signals.buy_signal /\ df.signals.force_sell)
       /\ pc = "done" => ~(ret.should_buy /\ ret.should_sell)

\* C34 witness: a buy signal on a candle at the edge of both filters (RSI at 70,
\* the close at the upper band): should_buy is true and should_sell is not.
C34_Witness ==
    /\ mode = "signals" /\ pc = "done"
    /\ df.cur.RSI = R(70)
    /\ df.cur.close = df.cur.BB_upper
    /\ df.signals.buy_signal
    /\ ret.should_buy /\ ~ret.should_sell

\* C35: every snapshot get_trading_stats / get_strategy_info returns to the
\* monitor thread is consistent: current_position is None iff entry_price is None,
\* and while current_position is 'long' the stop_loss_price and take_profit_price
\* are the ones computed from that entry_price.
C35_SnapshotConsistent ==
    (mode = "snapshot" /\ ret # NoneVal) =>
        LET info == ret.strategy_info
        IN  /\ (info.position = FLAT) <=> (info.entry_price = NoneVal)
            /\ info.position = LONG
                => /\ info.stop_loss_price = StopLoss(info.entry_price)
                   /\ info.take_profit_price = TakeProfit(info.entry_price)

\* C36: the monitoring loop started by start_system never exits before the
\* trading engine has been stopped: whatever the interleaving with start_trading,
\* run_monitoring_loop has returned only if stop_trading was called.
C36_MonitorOutlivesEngine ==
    (mode = "system" /\ monitor.pc = "exited") => pc = "stopped"

\* C37: whenever start_trading has returned False (the configuration or the
\* connection check failed) the engine's is_running flag is false; after
\* stop_trading the trading loop and the monitoring loop terminate (the second
\* half is C37_LoopsTerminate).
C37_FailedStartNotRunning ==
    (mode = "system" /\ pc = "failed") => ~is_running

\* once stop_trading has been called the trading loop has ended and the
\* monitoring loop eventually returns
C37_LoopsTerminate ==
    (mode = "system" /\ pc = "stopped") ~> (pc = "stopped" /\ monitor.pc = "exited")

\* C38: every call of run_backtest starts from the initial ledger state (balance =
\* initial_balance, FLAT, empty trade log, empty equity curve, zeroed results), so
\* the runs made on one engine instance over the same candles return the same
\* trade log and the same statistics.
C38_RunStartsFromInitialLedger ==
    /\ (mode = "backtest" /\ last.op = "run_backtest")
        => Before = NewBacktestEngine(INITIAL_BALANCE)
    /\ \A a, b \in 1 .. Len(runs) :
        /\ runs[a].trades = runs[b].trades
        /\ runs[a].results = runs[b].results

====
